---- MODULE Spec2Model ----
(***************************************************************************)
(* A model of the sensor readout engine of imSim (src/imsim/readout.py,    *)
(* src/imsim/camera.py): the CTE operator builder cte_matrix, the          *)
(* crosstalk mixer CcdReadout.apply_crosstalk and the readout pipeline     *)
(* CcdReadout.build_amp_images / prepare_hdus.                             *)
(*                                                                         *)
(* Numbers.  The Python code computes in IEEE doubles.  The model computes *)
(* in exact signed decimals of unbounded length (Dec), so that the values  *)
(* the code is run with (cti = 0.0001, crosstalk 0.01, bias 500.0) are     *)
(* represented exactly and 'within floating tolerance' reads as equality.  *)
(***************************************************************************)
EXTENDS Integers, Sequences, FiniteSets, TLC

(***************************************************************************)
(* Exact decimals.  A magnitude is a little-endian sequence of limbs in    *)
(* 0 .. Base-1; a Dec is [neg, mag, exp] and stands for                    *)
(* (neg ? -1 : 1) * mag / Base^exp, kept canonical so that equal numbers   *)
(* are equal records.                                                      *)
(***************************************************************************)
Base == 100 * 100

Max(a, b) == IF a >= b THEN a ELSE b

Min(a, b) == IF a <= b THEN a ELSE b

RECURSIVE Trim(_)
Trim(m) ==
    IF m = <<>> THEN <<>>
    ELSE IF m[Len(m)] = 0 THEN Trim(SubSeq(m, 1, Len(m) - 1))
    ELSE m

RECURSIVE MagAddC(_, _, _)
MagAddC(a, b, c) ==
    IF a = <<>> /\ b = <<>> THEN (IF c = 0 THEN <<>> ELSE <<c>>)
    ELSE LET x == IF a = <<>> THEN 0 ELSE Head(a)
             y == IF b = <<>> THEN 0 ELSE Head(b)
             s == x + y + c
         IN  <<s % Base>> \o MagAddC(IF a = <<>> THEN <<>> ELSE Tail(a),
                                     IF b = <<>> THEN <<>> ELSE Tail(b),
                                     s \div Base)

MagAdd(a, b) == Trim(MagAddC(a, b, 0))

\* a - b for magnitudes with a >= b
RECURSIVE MagSubC(_, _, _)
MagSubC(a, b, c) ==
    IF a = <<>> THEN <<>>
    ELSE LET y == IF b = <<>> THEN 0 ELSE Head(b)
             d == Head(a) - y - c
         IN  <<IF d < 0 THEN d + Base ELSE d>>
             \o MagSubC(Tail(a), IF b = <<>> THEN <<>> ELSE Tail(b),
                        IF d < 0 THEN 1 ELSE 0)

MagSub(a, b) == Trim(MagSubC(a, b, 0))

\* -1, 0, 1 as a < b, a = b, a > b (both trimmed)
RECURSIVE MagCmp(_, _)
MagCmp(a, b) ==
    IF Len(a) # Len(b) THEN (IF Len(a) < Len(b) THEN -1 ELSE 1)
    ELSE IF a = <<>> THEN 0
    ELSE IF a[Len(a)] # b[Len(b)] THEN (IF a[Len(a)] < b[Len(b)] THEN -1 ELSE 1)
    ELSE MagCmp(SubSeq(a, 1, Len(a) - 1), SubSeq(b, 1, Len(b) - 1))

\* a * k for one limb or small natural k
RECURSIVE MagMulSmallC(_, _, _)
MagMulSmallC(a, k, c) ==
    IF a = <<>> THEN (IF c = 0 THEN <<>> ELSE <<c % Base>> \o MagMulSmallC(<<>>, k, c \div Base))
    ELSE LET p == Head(a) * k + c
         IN  <<p % Base>> \o MagMulSmallC(Tail(a), k, p \div Base)

MagMulSmall(a, k) == Trim(MagMulSmallC(a, k, 0))

\* a * Base^n
MagShift(a, n) == IF a = <<>> THEN <<>> ELSE [i \in 1..n |-> 0] \o a

RECURSIVE MagMul(_, _)
MagMul(a, b) ==
    IF b = <<>> \/ a = <<>> THEN <<>>
    ELSE MagAdd(MagMulSmall(a, Head(b)), MagShift(MagMul(a, Tail(b)), 1))

\* long division of a by a small natural g, from the most significant limb:
\* the quotient's limbs (little-endian) and the remainder
RECURSIVE MagDivSmall(_, _)
MagDivSmall(a, g) ==
    IF a = <<>> THEN [q |-> <<>>, r |-> 0]
    ELSE LET hi  == MagDivSmall(Tail(a), g)
             cur == hi.r * Base + Head(a)
         IN  [q |-> <<cur \div g>> \o hi.q, r |-> cur % g]

RECURSIVE LowZeros(_)
LowZeros(m) == IF m = <<>> \/ Head(m) # 0 THEN 0 ELSE 1 + LowZeros(Tail(m))

\* the canonical Dec of a sign, a magnitude and an exponent
Norm(neg, mag, exp) ==
    LET m == Trim(mag)
        z == Min(LowZeros(m), exp)
    IN  IF m = <<>> THEN [neg |-> FALSE, mag |-> <<>>, exp |-> 0]
        ELSE [neg |-> neg, mag |-> SubSeq(m, z + 1, Len(m)), exp |-> exp - z]

RECURSIVE MagOfNat(_)
MagOfNat(n) == IF n = 0 THEN <<>> ELSE <<n % Base>> \o MagOfNat(n \div Base)

\* the integer n as a Dec
DecInt(n) == Norm(n < 0, MagOfNat(IF n < 0 THEN -n ELSE n), 0)

\* n / Base^e as a Dec: DecFrac(1, 1) is 0.0001
DecFrac(n, e) == Norm(n < 0, MagOfNat(IF n < 0 THEN -n ELSE n), e)

Zero == DecInt(0)

One == DecInt(1)

DecNeg(x) == IF x.mag = <<>> THEN x ELSE [x EXCEPT !.neg = ~x.neg]

DecAdd(x, y) ==
    LET e  == Max(x.exp, y.exp)
        xm == MagShift(x.mag, e - x.exp)
        ym == MagShift(y.mag, e - y.exp)
    IN  IF x.neg = y.neg THEN Norm(x.neg, MagAdd(xm, ym), e)
        ELSE IF MagCmp(xm, ym) >= 0 THEN Norm(x.neg, MagSub(xm, ym), e)
        ELSE Norm(y.neg, MagSub(ym, xm), e)

DecSub(x, y) == DecAdd(x, DecNeg(y))

DecMul(x, y) == Norm(x.neg # y.neg, MagMul(x.mag, y.mag), x.exp + y.exp)

\* x <= y
DecLeq(x, y) == LET d == DecSub(y, x) IN ~d.neg

\* x / g for a natural g >= 1 whose prime factors are 2 and 5 (the quotient is
\* then a finite decimal): limbs are appended until the division is exact
RECURSIVE DecDivNatE(_, _, _)
DecDivNatE(x, g, extra) ==
    LET d == MagDivSmall(MagShift(x.mag, extra), g)
    IN  IF d.r = 0 THEN Norm(x.neg, d.q, x.exp + extra)
        ELSE DecDivNatE(x, g, extra + 1)

DecDivNat(x, g) == DecDivNatE(x, g, 0)

RECURSIVE DecPow(_, _)
DecPow(x, n) == IF n = 0 THEN One ELSE DecMul(x, DecPow(x, n - 1))

RECURSIVE DecSum(_)
DecSum(s) == IF s = <<>> THEN Zero ELSE DecAdd(Head(s), DecSum(Tail(s)))


(***************************************************************************)
(* numpy arrays.  A vector is a function on 0 .. n-1, a 2-d array a        *)
(* function from row index to a vector; the indices are numpy's.           *)
(***************************************************************************)
VecLen(v) == Cardinality(DOMAIN v)

NRows(a) == Cardinality(DOMAIN a)

NCols(a) == IF NRows(a) = 0 THEN 0 ELSE VecLen(a[0])

Shape(a) == <<NRows(a), NCols(a)>>

\* np.zeros((h, w))
Zeros(h, w) == [r \in 0..(h - 1) |-> [c \in 0..(w - 1) |-> Zero]]

RECURSIVE DotUpTo(_, _, _)
DotUpTo(row, v, n) ==
    IF n = 0 THEN Zero
    ELSE DecAdd(DotUpTo(row, v, n - 1), DecMul(row[n - 1], v[n - 1]))

\* matrix @ vector for a matrix whose column count is the vector's length
MatVec(m, v) == [r \in DOMAIN m |-> DotUpTo(m[r], v, VecLen(v))]

\* column col of a, and a with column col replaced by v
Column(a, col) == [r \in DOMAIN a |-> a[r][col]]

SetColumn(a, col, v) == [r \in DOMAIN a |-> [a[r] EXCEPT ![col] = v[r]]]

(***************************************************************************)
(* cte_matrix (readout.py 150-192)                                         *)
(***************************************************************************)
\* scipy.special.binom(n, k) for integers 0 <= k <= n
RECURSIVE binom(_, _)
binom(n, k) ==
    IF k = 0 \/ k = n THEN 1
    ELSE binom(n - 1, k - 1) + binom(n - 1, k)

\* line 190 with the binomial taken over i transfers instead of i - 1
cte_offdiag_binom_i(i, j, cti) ==
    DecMul(DecMul(DecInt(binom(i, i - j)), DecPow(DecSub(One, cti), j)),
           DecPow(cti, i - j))

\* the right-hand side of line 190 for one j of np.arange(jmin, i)
cte_offdiag(i, j, cti) ==
    DecMul(DecMul(DecInt(binom(i - 1, i - j)), DecPow(DecSub(One, cti), j)),
           DecPow(cti, i - j))

\* the body of the loop with the diagonal one transfer short, (1-cti)**(i-1)
cte_row_diag_short(my_matrix, i, cti, ntransfers) ==
    LET jmin == Max(1, i - ntransfers)
        diag == [my_matrix EXCEPT ![i - 1][i - 1] = DecPow(DecSub(One, cti), i - 1)]
    IN  [diag EXCEPT ![i - 1] =
            [c \in DOMAIN @ |->
                IF (jmin - 1) <= c /\ c < (i - 1)
                THEN cte_offdiag(i, c + 1, cti)
                ELSE @[c]]]

\* the body of the loop of lines 178-190 for one i (1-based, as in the code)
cte_row(my_matrix, i, cti, ntransfers) ==
    LET jmin == Max(1, i - ntransfers)
        diag == [my_matrix EXCEPT ![i - 1][i - 1] = DecPow(DecSub(One, cti), i)]
    IN  [diag EXCEPT ![i - 1] =
            [c \in DOMAIN @ |->
                IF (jmin - 1) <= c /\ c < (i - 1)
                THEN cte_offdiag(i, c + 1, cti)
                ELSE @[c]]]

RECURSIVE cte_loop(_, _, _, _, _)
cte_loop(my_matrix, i, npix, cti, ntransfers) ==
    IF i > npix THEN my_matrix
    ELSE cte_loop(cte_row(my_matrix, i, cti, ntransfers), i + 1, npix, cti, ntransfers)

cte_matrix(npix, cti, ntransfers) ==
    cte_loop(Zeros(npix, npix), 1, npix, cti, ntransfers)

\* the default of the ntransfers parameter
DefaultTransfers == 20

(***************************************************************************)
(* Results of operations that may raise: Ok(v), or Raise(e) for an         *)
(* exception named e.  Python's None is None; Some(v) is a value that may  *)
(* have been None.                                                         *)
(***************************************************************************)
Ok(v) == [exc |-> "none", val |-> v]

Raise(e) == [exc |-> e]

None == [none |-> TRUE]

Some(v) == [none |-> FALSE, v |-> v]

(***************************************************************************)
(* numpy's element-wise arithmetic with broadcasting, on 2-d arrays        *)
(***************************************************************************)
\* whether shapes s and t broadcast against each other
BroadcastOk(s, t) ==
    /\ s[1] = t[1] \/ s[1] = 1 \/ t[1] = 1
    /\ s[2] = t[2] \/ s[2] = 1 \/ t[2] = 1

\* a + b for arrays whose shapes broadcast
np_add(a, b) ==
    LET s == Shape(a)
        t == Shape(b)
    IN  [r \in 0..(Max(s[1], t[1]) - 1) |->
            [c \in 0..(Max(s[2], t[2]) - 1) |->
                DecAdd(a[IF s[1] = 1 THEN 0 ELSE r][IF s[2] = 1 THEN 0 ELSE c],
                       b[IF t[1] = 1 THEN 0 ELSE r][IF t[2] = 1 THEN 0 ELSE c])]]

\* a * y for an array a and a number y
np_scale(a, y) == [r \in DOMAIN a |-> [c \in DOMAIN a[r] |-> DecMul(a[r][c], y)]]

\* a[:, ::-1] and a[::-1, :]
flip_columns(a) == [r \in DOMAIN a |-> [c \in DOMAIN a[r] |-> a[r][NCols(a) - 1 - c]]]

flip_rows(a) == [r \in DOMAIN a |-> a[NRows(a) - 1 - r]]

(***************************************************************************)
(* CcdReadout.apply_crosstalk (readout.py 298-306).  amp_arrays is a list  *)
(* (a sequence), xtalk is None or Some(2-d array of coefficients).         *)
(***************************************************************************)
\* sum([x*y for x, y in zip(amp_arrays, xtalk_row)]) over the first n pairs;
\* Python's sum starts from the number 0, which broadcasts like a 1 x 1 array
RECURSIVE xtalk_sum(_, _, _)
xtalk_sum(amp_arrays, xtalk_row, n) ==
    IF n = 0 THEN Ok(Zeros(1, 1))
    ELSE LET prev == xtalk_sum(amp_arrays, xtalk_row, n - 1)
             term == np_scale(amp_arrays[n], xtalk_row[n - 1])
         IN  IF prev.exc # "none" THEN prev
             ELSE IF BroadcastOk(Shape(prev.val), Shape(term))
             THEN Ok(np_add(prev.val, term))
             ELSE Raise("ValueError")

\* the element appended for amp_index (0-based) and its row of xtalk
xtalk_output(amp_arrays, xtalk_row, amp_index) ==
    IF amp_index >= Len(amp_arrays) THEN Raise("IndexError")
    ELSE LET s == xtalk_sum(amp_arrays, xtalk_row,
                            Min(Len(amp_arrays), VecLen(xtalk_row)))
         IN  IF s.exc # "none" THEN s
             ELSE IF BroadcastOk(Shape(amp_arrays[amp_index + 1]), Shape(s.val))
             THEN Ok(np_add(amp_arrays[amp_index + 1], s.val))
             ELSE Raise("ValueError")

\* apply_crosstalk mixing in place: each output replaces its input before the
\* next row is mixed
RECURSIVE xtalk_in_place(_, _, _)
xtalk_in_place(arrays, xtalk, i) ==
    IF i = NRows(xtalk) THEN Ok(arrays)
    ELSE LET o == xtalk_output(arrays, xtalk[i], i)
         IN  IF o.exc # "none" THEN o
             ELSE xtalk_in_place([arrays EXCEPT ![i + 1] = o.val], xtalk, i + 1)

apply_crosstalk_in_place(xtalk, amp_arrays) ==
    IF xtalk.none THEN Ok(amp_arrays) ELSE xtalk_in_place(amp_arrays, xtalk.v, 0)

apply_crosstalk(xtalk, amp_arrays) ==
    IF xtalk.none THEN Ok(amp_arrays)
    ELSE LET outs == [i \in 1..NRows(xtalk.v) |->
                         xtalk_output(amp_arrays, xtalk.v[i - 1], i - 1)]
             bad  == {i \in DOMAIN outs : outs[i].exc # "none"}
         IN  IF bad = {} THEN Ok([i \in DOMAIN outs |-> outs[i].val])
             ELSE Raise(outs[CHOOSE i \in bad : \A j \in bad : i <= j].exc)

(***************************************************************************)
(* Geometry (camera.py).  The external camera description gives, per       *)
(* amplifier, 0-based inclusive boxes [minX, maxX, minY, maxY]; the Amp   *)
(* objects hold galsim.BoundsI, 1-based inclusive.                         *)
(***************************************************************************)
valid_cameras == {"LsstCam", "LsstComCam", "LsstCamImSim"}

get_gs_bounds(bbox) ==
    [xmin |-> bbox.minX + 1, xmax |-> bbox.maxX + 1,
     ymin |-> bbox.minY + 1, ymax |-> bbox.maxY + 1]

\* the bias level Amp.make_amp_from_lsst stores when none is given
DefaultAmpBias == 1000

make_amp_from_lsst(lsst_amp) ==
    [name            |-> lsst_amp.name,
     bounds          |-> get_gs_bounds(lsst_amp.bbox),
     raw_flip_x      |-> lsst_amp.rawFlipX,
     raw_flip_y      |-> lsst_amp.rawFlipY,
     gain            |-> lsst_amp.gain,
     raw_bounds      |-> get_gs_bounds(lsst_amp.rawBBox),
     raw_data_bounds |-> get_gs_bounds(lsst_amp.rawDataBBox),
     read_noise      |-> lsst_amp.readNoise,
     bias_level      |-> DecInt(DefaultAmpBias)]

\* a CCD: its amplifiers in the order of the detector (a dict keeps the order
\* of insertion), its bounds and its crosstalk
make_ccd_from_lsst(lsst_ccd) ==
    [bounds |-> get_gs_bounds(lsst_ccd.bbox),
     amps   |-> [k \in DOMAIN lsst_ccd.amps |-> make_amp_from_lsst(lsst_ccd.amps[k])],
     xtalk  |-> IF lsst_ccd.hasCrosstalk THEN Some(lsst_ccd.crosstalk) ELSE None]

\* Camera.__init__ (camera.py 163-170) for the camera get_camera returned: the
\* attribute lsst_camera and one CCD per detector
Camera_of(lsst_camera) ==
    [lsst_camera |-> lsst_camera,
     ccds        |-> [d \in DOMAIN lsst_camera.detectors |->
                         make_ccd_from_lsst(lsst_camera.detectors[d])]]

\* dict.update: the entries of other win, the other entries of d stay
dict_update(d, other) ==
    [k \in DOMAIN d \cup DOMAIN other |-> IF k \in DOMAIN other THEN other[k] ELSE d[k]]

\* Amp.update (camera.py 37-41): self.__dict__ after the call
Amp_update(self_amp, other_amp) == dict_update(self_amp, other_amp)

\* Amp() and CCD() as __init__ leaves them (camera.py 26-35, 87-91)
NewAmp ==
    [bounds |-> None, raw_flip_x |-> None, raw_flip_y |-> None, gain |-> None,
     raw_bounds |-> None, raw_data_bounds |-> None, read_noise |-> None,
     bias_level |-> None]

NewCCD == [bounds |-> None, xtalk |-> None, amps |-> <<>>]

amp_names(amps) == {amps[i].name : i \in DOMAIN amps}

amp_named(amps, name) == amps[CHOOSE i \in DOMAIN amps : amps[i].name = name]

\* CCD.update (camera.py 93-101): self after the call.  The attributes of
\* other replace those of self; every amplifier of other updates the one of
\* self under its key, a new Amp() put there first if self has none
CCD_update(self_ccd, other_ccd) ==
    LET kept  == [i \in DOMAIN self_ccd.amps |->
                     IF self_ccd.amps[i].name \in amp_names(other_ccd.amps)
                     THEN Amp_update(self_ccd.amps[i],
                                     amp_named(other_ccd.amps, self_ccd.amps[i].name))
                     ELSE self_ccd.amps[i]]
        IsNew(a) == a.name \notin amp_names(self_ccd.amps)
        fresh == SelectSeq(other_ccd.amps, IsNew)
        added == [i \in DOMAIN fresh |->
                     Amp_update(NewAmp @@ ("name" :> fresh[i].name), fresh[i])]
    IN  [bounds |-> other_ccd.bounds, xtalk |-> other_ccd.xtalk, amps |-> kept \o added]

\* Camera.update (camera.py 172-181): self after the call
Camera_update(self_camera, other_camera) ==
    [lsst_camera |-> other_camera.lsst_camera,
     ccds        |-> [d \in DOMAIN self_camera.ccds \cup DOMAIN other_camera.ccds |->
                         IF d \notin DOMAIN other_camera.ccds THEN self_camera.ccds[d]
                         ELSE IF d \in DOMAIN self_camera.ccds
                         THEN CCD_update(self_camera.ccds[d], other_camera.ccds[d])
                         ELSE CCD_update(NewCCD, other_camera.ccds[d])]]

\* galsim.BoundsI.numpyShape(), includes(), and galsim.Image(bounds)
numpyShape(b) == <<b.ymax - b.ymin + 1, b.xmax - b.xmin + 1>>

includes(outer, inner) ==
    /\ outer.xmin <= inner.xmin /\ inner.xmax <= outer.xmax
    /\ outer.ymin <= inner.ymin /\ inner.ymax <= outer.ymax

\* an image whose pixels start at 1 instead of 0
Image_of_ones(bounds) ==
    [bounds |-> bounds,
     array  |-> [r \in 0..(numpyShape(bounds)[1] - 1) |->
                    [c \in 0..(numpyShape(bounds)[2] - 1) |-> One]]]

Image(bounds) ==
    [bounds |-> bounds, array |-> Zeros(numpyShape(bounds)[1], numpyShape(bounds)[2])]

\* image[b].array for b inside the image's bounds
subarray(image, b) ==
    [r \in 0..(b.ymax - b.ymin) |->
        [c \in 0..(b.xmax - b.xmin) |->
            image.array[r + b.ymin - image.bounds.ymin][c + b.xmin - image.bounds.xmin]]]

\* image[b].array[:] += data, for data of the shape of b
add_subarray(image, b, data) ==
    [image EXCEPT !.array =
        [r \in DOMAIN @ |->
            [c \in DOMAIN @[r] |->
                LET y == r + image.bounds.ymin
                    x == c + image.bounds.xmin
                IN  IF b.xmin <= x /\ x <= b.xmax /\ b.ymin <= y /\ y <= b.ymax
                    THEN DecAdd(@[r][c],
                                data[IF NRows(data) = 1 THEN 0 ELSE y - b.ymin]
                                    [IF NCols(data) = 1 THEN 0 ELSE x - b.xmin])
                    ELSE @[r][c]]]]

(***************************************************************************)
(* bleed_eimage (bleed_trails.py, not among the sources): a pure function  *)
(* of the array and full_well that returns an array of the same shape.     *)
(* Charge above the full well moves along its column, first towards higher *)
(* rows and then back; what no pixel of the column can hold is lost.       *)
(***************************************************************************)
RECURSIVE bleed_up(_, _, _, _)
bleed_up(col, r, carry, full_well) ==
    IF r = VecLen(col) THEN [col |-> col, carry |-> carry]
    ELSE LET t == DecAdd(col[r], carry)
             kept == IF DecLeq(t, full_well) THEN t ELSE full_well
         IN  bleed_up([col EXCEPT ![r] = kept], r + 1, DecSub(t, kept), full_well)

RECURSIVE bleed_down(_, _, _, _)
bleed_down(col, r, carry, full_well) ==
    IF r < 0 THEN col
    ELSE LET t == DecAdd(col[r], carry)
             kept == IF DecLeq(t, full_well) THEN t ELSE full_well
         IN  bleed_down([col EXCEPT ![r] = kept], r - 1, DecSub(t, kept), full_well)

bleed_column(col, full_well) ==
    LET up == bleed_up(col, 0, Zero, full_well)
    IN  bleed_down(up.col, VecLen(col) - 1, up.carry, full_well)

bleed_eimage(array, full_well) ==
    LET cols == [c \in 0..(NCols(array) - 1) |-> bleed_column(Column(array, c), full_well)]
    IN  [r \in DOMAIN array |-> [c \in DOMAIN array[r] |-> cols[c][r]]]

(***************************************************************************)
(* The stages of CcdReadout.build_amp_images (readout.py 308-364) as       *)
(* functions of their inputs                                               *)
(***************************************************************************)
\* lines 336-340 with the flags on the wrong axes: raw_flip_x reversing the
\* rows and raw_flip_y the columns
amp_segment_flips_swapped(eimage, amp) ==
    LET crop     == subarray(eimage, amp.bounds)
        amp_data == [r \in DOMAIN crop |->
                        [c \in DOMAIN crop[r] |-> DecDivNat(crop[r][c], amp.gain)]]
        flipx    == IF amp.raw_flip_x THEN flip_rows(amp_data) ELSE amp_data
    IN  IF amp.raw_flip_y THEN flip_columns(flipx) ELSE flipx

\* lines 336-340: the array appended for amplifier amp
amp_segment(eimage, amp) ==
    LET crop     == subarray(eimage, amp.bounds)
        amp_data == [r \in DOMAIN crop |->
                        [c \in DOMAIN crop[r] |-> DecDivNat(crop[r][c], amp.gain)]]
        flipx    == IF amp.raw_flip_x THEN flip_columns(amp_data) ELSE amp_data
    IN  IF amp.raw_flip_y THEN flip_rows(flipx) ELSE flipx

\* whether data can be added in place to a view of shape s (numpy broadcasts
\* the right-hand side to the view)
BroadcastsTo(data, s) ==
    /\ NRows(data) = s[1] \/ NRows(data) = 1
    /\ NCols(data) = s[2] \/ NCols(data) = 1

\* lines 349-350 with the data put at the corner of the raw bounds, over the
\* prescan, instead of at raw_data_bounds
full_segment_at_corner(amp_data, amp) ==
    LET s  == numpyShape(amp.raw_data_bounds)
        at == [xmin |-> amp.raw_bounds.xmin, xmax |-> amp.raw_bounds.xmin + s[2] - 1,
               ymin |-> amp.raw_bounds.ymin, ymax |-> amp.raw_bounds.ymin + s[1] - 1]
    IN  IF ~includes(amp.raw_bounds, amp.raw_data_bounds) THEN Raise("GalSimBoundsError")
        ELSE IF ~BroadcastsTo(amp_data, s) THEN Raise("ValueError")
        ELSE Ok(add_subarray(Image(amp.raw_bounds), at, amp_data))

\* lines 349-350: the full segment of amplifier amp holding amp_data
full_segment_of(amp_data, amp) ==
    IF ~includes(amp.raw_bounds, amp.raw_data_bounds) THEN Raise("GalSimBoundsError")
    ELSE IF ~BroadcastsTo(amp_data, numpyShape(amp.raw_data_bounds)) THEN Raise("ValueError")
    ELSE Ok(add_subarray(Image(amp.raw_bounds), amp.raw_data_bounds, amp_data))

\* lines 290-292 for one full_arr: every column replaced by pcte_matrix @ column
cte_parallel(pcte_matrix, full_arr) ==
    IF pcte_matrix.none \/ NCols(full_arr) = 0 THEN Ok(full_arr)
    ELSE IF NCols(pcte_matrix.v) # NRows(full_arr) THEN Raise("ValueError")
    ELSE LET cols == [c \in 0..(NCols(full_arr) - 1) |->
                         MatVec(pcte_matrix.v, Column(full_arr, c))]
         IN  Ok([r \in DOMAIN full_arr |-> [c \in DOMAIN full_arr[r] |-> cols[c][r]]])

\* lines 293-295 for one full_arr: every row replaced by scte_matrix @ row
cte_serial(scte_matrix, full_arr) ==
    IF scte_matrix.none \/ NRows(full_arr) = 0 THEN Ok(full_arr)
    ELSE IF NCols(scte_matrix.v) # NCols(full_arr) THEN Raise("ValueError")
    ELSE Ok([r \in DOMAIN full_arr |-> MatVec(scte_matrix.v, full_arr[r])])

\* line 330 with the draw stored in place of the sum
array_add_overwrites(a, b) == b

\* a + b for 2-d arrays of one shape, and a + y for a number y
array_add(a, b) == [r \in DOMAIN a |-> [c \in DOMAIN a[r] |-> DecAdd(a[r][c], b[r][c])]]

array_add_scalar(a, y) == [r \in DOMAIN a |-> [c \in DOMAIN a[r] |-> DecAdd(a[r][c], y)]]

\* d.get(key, default) for a dict d
Get(d, key, default) == IF key \in DOMAIN d THEN d[key] ELSE default

\* the number of pairs zip(a, b) yields
ZipLen(a, b) == Min(Len(a), Len(b))

(***************************************************************************)
(* compute_rotSkyPos (readout.py 65-136).  north is what the WCS of the    *)
(* external factory gives for the arguments: theta, the angle in whole     *)
(* degrees that arccos returns (0 .. 180), and west, whether x2 < x1.      *)
(***************************************************************************)
rotSkyPos_theta(camera_name, north) ==
    LET t1 == IF north.west THEN 360 - north.theta ELSE north.theta
        t2 == IF camera_name = "LsstCamImSim" THEN 90 - t1 ELSE t1
    IN  IF t2 < 0 THEN t2 + 360 ELSE t2

\* make_batoid_wcs (readout.py 48-51): 'band not in "ugrizy"' is a test for a
\* substring; a band that fails it is replaced by 'r'
IsSubstring(b, str) ==
    \E i \in 0..(Len(str) - Len(b)) : SubSeq(str, i + 1, i + Len(b)) = b

coerced_band(band) == IF IsSubstring(band, "ugrizy") THEN band ELSE "r"

\* the value returned and the cache after the call
compute_rotSkyPos(cache, ra0, dec0, rottelpos, obsmjd, band, camera_name, north) ==
    LET args == <<ra0, dec0, rottelpos, obsmjd, band, camera_name>>
    IN  IF args \in DOMAIN cache THEN [theta |-> cache[args], cache |-> cache]
        ELSE LET theta == rotSkyPos_theta(camera_name, north)
             IN  [theta |-> theta, cache |-> cache @@ (args :> theta)]

(***************************************************************************)
(* get_primary_hdu (readout.py 196-259)                                    *)
(***************************************************************************)
\* the keys of eimage.header that get_primary_hdu reads, in the order read
primary_hdu_keys ==
    <<"OBSID", "MJD", "SEQNUM", "EXPTIME", "IMGTYPE", "DET_NAME", "CAMERA",
      "RATEL", "DECTEL", "ROTTELPOS", "FILTER", "MJD-OBS", "HASTART", "HAEND",
      "AMSTART", "AMEND">>

\* the header of the primary HDU, given the rotation angle computed for it
primary_header(header, rotangle) ==
    LET exptime == header["EXPTIME"]
        raft    == header["DET_NAME"][1]
        sensor  == header["DET_NAME"][2]
    IN  [RUNNUM   |-> header["OBSID"],
         OBSID    |-> header["OBSID"],
         MJD      |-> header["MJD"],
         DATE     |-> <<"isot", header["MJD"]>>,
         DAYOBS   |-> <<"%Y%m%d", header["MJD"]>>,
         SEQNUM   |-> header["SEQNUM"],
         EXPTIME  |-> exptime,
         DARKTIME |-> exptime,
         TIMESYS  |-> "TAI",
         LSST_NUM |-> "LCA-11021_RTM-000",
         IMGTYPE  |-> header["IMGTYPE"],
         OBSTYPE  |-> header["IMGTYPE"],
         MONOWL   |-> -1,
         ROTANGLE |-> rotangle,
         FILTER   |-> header["FILTER"],
         HASTART  |-> header["HASTART"],
         HAEND    |-> header["HAEND"],
         AMSTART  |-> header["AMSTART"],
         AMEND    |-> header["AMEND"],
         CHIPID   |-> header["DET_NAME"]]
        @@ ("MJD-OBS" :> header["MJD-OBS"])
        @@ ("DATE-OBS" :> <<"isot", header["MJD-OBS"], Zero>>)
        @@ ("DATE-END" :> <<"isot", header["MJD-OBS"], exptime>>)
        @@ (IF header["CAMERA"] = "LsstCamImSim"
            THEN [TESTTYPE |-> "IMSIM", RAFTNAME |-> raft, SENSNAME |-> sensor,
                  RATEL |-> header["RATEL"], DECTEL |-> header["DECTEL"]]
            ELSE [INSTRUME |-> "LSSTCam", RAFTBAY |-> raft, CCDSLOT |-> sensor,
                  RA |-> header["RATEL"], DEC |-> header["DECTEL"],
                  ROTCOORD |-> "sky"])

(***************************************************************************)
(* CcdReadout.prepare_hdus (readout.py 366-412): the image HDUs.  The keys *)
(* that the WCS of the electron image writes (CRPIX, CD) are left out.     *)
(***************************************************************************)
\* line 375
channels ==
    <<"10", "11", "12", "13", "14", "15", "16", "17",
      "07", "06", "05", "04", "03", "02", "01", "00">>

\* section_keyword (readout.py 139-147): the pieces of '[%i:%i,%i:%i]'
section_keyword(bounds, flipx, flipy) ==
    LET xmin == IF flipx THEN bounds.xmax ELSE bounds.xmin
        xmax == IF flipx THEN bounds.xmin ELSE bounds.xmax
        ymin == IF flipy THEN bounds.ymax ELSE bounds.ymin
        ymax == IF flipy THEN bounds.ymin ELSE bounds.ymax
    IN  <<"[", xmin, ":", xmax, ",", ymin, ":", ymax, "]">>

\* a float cast to np.int32: the fraction is dropped (the values of the runs
\* are far below 2^31)
int32(x) == Norm(x.neg, SubSeq(x.mag, x.exp + 1, Len(x.mag)), 0)

\* lines 388-407 for frame amp_num (0-based) of self.amp_images
image_hdu(amp_num, frame, ccd) ==
    LET channel == "C" \o channels[amp_num + 1]
    IN  IF channel \notin amp_names(ccd.amps) THEN Raise("KeyError")
        ELSE LET amp_info == amp_named(ccd.amps, channel)
             IN  Ok([data    |-> [r \in DOMAIN frame.array |->
                                     [c \in DOMAIN frame.array[r] |->
                                         int32(frame.array[r][c])]],
                     EXTNAME |-> "Segment" \o channels[amp_num + 1],
                     DATASEC |-> section_keyword(amp_info.raw_data_bounds, FALSE, FALSE),
                     DETSEC  |-> section_keyword(amp_info.bounds, amp_info.raw_flip_x,
                                                 amp_info.raw_flip_y)])

\* the loop of lines 387-411 over frames: the HDUs appended to done, or the
\* exception that ends it
RECURSIVE image_hdus(_, _, _)
image_hdus(done, frames, ccd) ==
    IF Len(done) = Len(frames) THEN Ok(done)
    ELSE IF Len(done) >= Len(channels) THEN Raise("IndexError")
    ELSE LET hdu == image_hdu(Len(done), frames[Len(done) + 1], ccd)
         IN  IF hdu.exc # "none" THEN hdu
             ELSE image_hdus(Append(done, hdu.val), frames, ccd)

(***************************************************************************)
(* make_batches (photon_pooling.py 53-66), a generator.  Its frame is the  *)
(* number per_batch, the iterator o_iter over objects (the number of       *)
(* objects it has given out) and the batches yielded so far.               *)
(***************************************************************************)
\* line 66: [obj for _, obj in zip(range(per_batch), o_iter)], i being the
\* position in range(per_batch) and pos that of o_iter.  zip asks the range
\* first and takes nothing from o_iter once the range is at its end
RECURSIVE zip_batch(_, _, _, _)
zip_batch(i, per_batch, objects, pos) ==
    IF i >= per_batch THEN [batch |-> <<>>, o_iter |-> pos]
    ELSE IF pos >= Len(objects) THEN [batch |-> <<>>, o_iter |-> pos]
    ELSE LET rest == zip_batch(i + 1, per_batch, objects, pos + 1)
         IN  [batch |-> <<objects[pos + 1]>> \o rest.batch, o_iter |-> rest.o_iter]

\* lines 65-66: one next() on the generator whose frame is frame: the next
\* batch is yielded, or the loop is over and the generator stops
next_batch(frame, objects, nbatch) ==
    IF Len(frame.batches) >= nbatch THEN [frame EXCEPT !.stopped = TRUE]
    ELSE LET z == zip_batch(0, frame.per_batch, objects, frame.o_iter)
         IN  [frame EXCEPT !.batches = Append(@, z.batch), !.o_iter = z.o_iter]

(***************************************************************************)
(* Bounds of the model                                                     *)
(***************************************************************************)
\* the calls of cte_matrix: npix in 1 .. MaxNpix, ntransfers in 0 .. MaxTransfers
MaxNpix == 4

MaxTransfers == 4

\* the detectors of the pipeline runs: NumAmps amplifiers side by side, each
\* AmpWidth x AmpHeight visible pixels, with Prescan and SerialOverscan
\* columns and ParallelOverscan rows around them in the raw frame
NumAmps == 2

AmpWidth == 3

AmpHeight == 2

Prescan == 1

SerialOverscan == 1

ParallelOverscan == 1

\* the end-to-end run: E2EAmps amplifiers of E2ESize x E2ESize visible pixels
E2EAmps == 2

E2ESize == 10

(***************************************************************************)
(* Inputs: the calls of the pure functions                                 *)
(***************************************************************************)
\* 0, 0.0001, 0.5 and the default CTI of the pipeline, 1e-6
CtiValues == {Zero, DecFrac(1, 1), DecFrac(5000, 1), DecFrac(100, 2)}

TransferValues == (0..MaxTransfers) \cup {DefaultTransfers}

\* charge vectors of length n: the unit vectors, and 1, 2, .. n
ChargeVectors(n) ==
    {[p \in 0..(n - 1) |-> IF p = k THEN One ELSE Zero] : k \in 0..(n - 1)}
    \cup {[p \in 0..(n - 1) |-> DecInt(p + 1)]}

CteCalls ==
    UNION {{[fn |-> "cte_matrix", npix |-> n, cti |-> c, ntransfers |-> t, qin |-> q] :
               c \in CtiValues, t \in TransferValues, q \in ChargeVectors(n)} :
           n \in 1..MaxNpix}

\* an h x w array holding first, first + step, .. row by row
Ramp(h, w, first, step) ==
    [r \in 0..(h - 1) |-> [c \in 0..(w - 1) |-> DecInt(first + step * (r * w + c))]]

\* amplifier arrays of several shapes
SampleArrays ==
    {Ramp(2, 2, 1, 1), Ramp(2, 2, 10, 10), Ramp(1, 2, 5, 1), Ramp(2, 1, 7, 2),
     Ramp(2, 3, 1, 1)}

\* the n x n crosstalk matrix with 0 on the diagonal and 0.01 * (i + 1) off
\* it: [[0, 0.01], [0.02, 0]] for n = 2
XtalkExample(n) ==
    [i \in 0..(n - 1) |-> [j \in 0..(n - 1) |->
        IF i = j THEN Zero ELSE DecFrac(100 * (i + 1), 1)]]

\* an n x n crosstalk matrix without zeros
XtalkDense(n) ==
    [i \in 0..(n - 1) |-> [j \in 0..(n - 1) |-> DecFrac(2500 * (1 + i + 2 * j), 1)]]

XtalkCalls ==
    {[fn |-> "apply_crosstalk", xtalk |-> x, amp_arrays |-> a] :
        x \in {None, Some(XtalkExample(NumAmps)), Some(XtalkDense(NumAmps))},
        a \in [1..NumAmps -> SampleArrays]}

NoCall == [fn |-> "none"]

NoRet == [fn |-> "none"]

(***************************************************************************)
(* Inputs: the runs of the pipeline                                        *)
(***************************************************************************)
\* the names of the amplifiers of a detector, in the detector's order
lsst_amp_names ==
    <<"C10", "C11", "C12", "C13", "C14", "C15", "C16", "C17",
      "C07", "C06", "C05", "C04", "C03", "C02", "C01", "C00">>

RECURSIVE Pow2(_)
Pow2(n) == IF n = 0 THEN 1 ELSE 2 * Pow2(n - 1)

\* amplifier k (0-based) of a detector of w x h amplifiers.  flip selects the
\* flip flags, elec the gains and read noises ("unit": gain 1, no read noise;
\* "varied": gains 2, 4, .., read noises 1, 2, ..), origin the corner of the
\* raw boxes (0 in the cameras of obs_lsst)
LsstAmp(k, w, h, flip, elec, origin) ==
    [name        |-> lsst_amp_names[k + 1],
     bbox        |-> [minX |-> k * w, maxX |-> k * w + w - 1, minY |-> 0, maxY |-> h - 1],
     rawBBox     |-> [minX |-> origin,
                      maxX |-> origin + Prescan + w + SerialOverscan - 1,
                      minY |-> origin,
                      maxY |-> origin + h + ParallelOverscan - 1],
     rawDataBBox |-> [minX |-> origin + Prescan, maxX |-> origin + Prescan + w - 1,
                      minY |-> origin, maxY |-> origin + h - 1],
     rawFlipX    |-> ((flip + k) % 2 = 1),
     rawFlipY    |-> (((flip + k) \div 2) % 2 = 1),
     gain        |-> IF elec = "unit" THEN 1 ELSE Pow2(k + 1),
     readNoise   |-> IF elec = "unit" THEN Zero ELSE DecInt(k + 1)]

LsstCcd(namps, w, h, flip, elec, origin, xtalk) ==
    [bbox         |-> [minX |-> 0, maxX |-> namps * w - 1, minY |-> 0, maxY |-> h - 1],
     amps         |-> [k \in 1..namps |-> LsstAmp(k - 1, w, h, flip, elec, origin)],
     hasCrosstalk |-> xtalk,
     crosstalk    |-> XtalkExample(namps)]

DetName == <<"R22", "S11">>

\* what lsst.obs.lsst gives for every valid camera class: one detector
LsstObs(ccd) == [n \in valid_cameras |-> [detectors |-> (DetName :> ccd)]]

EmptyDict == [k \in {} |-> Zero]

\* ccd_params: none given; the CTIs and the dark current given; the times given
ParamSets ==
    {EmptyDict}
    \cup {[dark_current |-> d, scti |-> s, pcti |-> p, bias_level |-> DecInt(500)] :
             d \in {Zero, DecFrac(200, 1)}, s \in {Zero, DecFrac(1, 1)},
             p \in {Zero, DecFrac(1, 1)}}
    \cup {[exp_time |-> e, readout_time |-> t, dark_current |-> Zero,
           scti |-> Zero, pcti |-> Zero] :
             e \in {DecInt(15), DecInt(30)}, t \in {Zero, DecInt(2)}}

\* the header of the electron image
Header(camera_name, exptime) ==
    [OBSID |-> 1234, MJD |-> 60000, SEQNUM |-> 7, EXPTIME |-> exptime,
     IMGTYPE |-> "SKYEXP", DET_NAME |-> DetName, CAMERA |-> camera_name,
     RATEL |-> 0, DECTEL |-> 0, ROTTELPOS |-> 0, FILTER |-> "r",
     HASTART |-> 1, HAEND |-> 2, AMSTART |-> 1, AMEND |-> 1]
    @@ ("MJD-OBS" :> 60000)

\* electron images of h x w pixels: all zero; 1, 2, 3, ..; and the same with
\* its first pixel above the default full well
ImageKinds == {"zero", "ramp", "saturated"}

EImageArray(kind, h, w) ==
    IF kind = "zero" THEN Zeros(h, w)
    ELSE IF kind = "ramp" THEN Ramp(h, w, 1, 1)
    ELSE [Ramp(h, w, 1, 1) EXCEPT ![0][0] = DecInt(100007)]

EImage(kind, namps, w, h, camera_name, exptime) ==
    [bounds |-> [xmin |-> 1, xmax |-> namps * w, ymin |-> 1, ymax |-> h],
     array  |-> EImageArray(kind, h, namps * w),
     header |-> Header(camera_name, exptime)]

\* the parameter sets that set the exposure and readout times
TimingParams == {p \in ParamSets : "exp_time" \in DOMAIN p}

\* the runs of the bounded detector: every combination of the flips, the
\* electronics, the crosstalk, the image and the parameters, but the raw boxes
\* off the origin and the timing parameters only for one choice of the flips
\* and without crosstalk
RunChoice(flip, elec, origin, xtalk, kind, params) ==
    /\ origin # 0 => flip = 0 /\ ~xtalk /\ params \notin TimingParams
    /\ params \in TimingParams => flip = 0 /\ ~xtalk

\* the end-to-end run: no dark current, no CTI, no read noise, bias 500, an
\* electron image of zeros
E2EParams ==
    [dark_current |-> Zero, scti |-> Zero, pcti |-> Zero, bias_level |-> DecInt(500)]

\* outcomes of the random draws: the Poisson counts of the dark current for a
\* positive mean (one electron in the last pixel; one in every pixel) and the
\* Gaussian read noise for a positive sigma, in units of sigma (+1 in every
\* pixel; +1 and -1 alternating)
PoissonDraws(h, w) ==
    {[r \in 0..(h - 1) |-> [c \in 0..(w - 1) |->
         IF r = h - 1 /\ c = w - 1 THEN One ELSE Zero]],
     [r \in 0..(h - 1) |-> [c \in 0..(w - 1) |-> One]]}

GaussianDraws(h, w) ==
    {[r \in 0..(h - 1) |-> [c \in 0..(w - 1) |-> One]],
     [r \in 0..(h - 1) |-> [c \in 0..(w - 1) |->
         IF (r + c) % 2 = 0 THEN One ELSE DecInt(-1)]]}

\* what the WCS may give for the angle to North
NorthOutcomes == {[theta |-> 30, west |-> FALSE], [theta |-> 120, west |-> TRUE]}

(***************************************************************************)
(* State                                                                   *)
(***************************************************************************)
VARIABLES
    pc,               \* where the run is: "call" for a call of a pure function,
                      \* else the next step of CcdReadout(...).prepare_hdus(rng)
    exc,              \* the exception that ended the run, or "none"
    lsst_obs,         \* the cameras of the external geometry source
    ccd_params,       \* the ccd_params argument of CcdReadout
    eimage,           \* the caller's electron image, which self.eimage aliases
    camera_cache,     \* camera.py's _camera_cache
    rotSkyPos_cache,  \* readout.py's _rotSkyPos_cache
    self,             \* the attributes of the CcdReadout but amp_images and eimage
    amp_images,       \* self.amp_images
    amp_arrays,       \* the locals of build_amp_images: amp_arrays,
    amp,              \*   the loop variable amp (None: not yet bound),
    dark_time,        \*   dark_time,
    idx,              \*   and the number of iterations of the current loop done
    log,              \* history: the steps of build_amp_images taken so far
    noise_args,       \* history: the read_noise given to CCDNoise for each frame
    eimage_in,        \* history: the electron image as the caller built it
    phdu,             \* the header of the primary HDU, once built
    call,             \* the pure function called and its arguments
    ret,              \* what it returned
    hdus,             \* what prepare_hdus returned, once it has
    calls_left,       \* how many more times the caller will call prepare_hdus
    eimage_log,       \* history: the electron image at each return of prepare_hdus
    cam_self,         \* the Camera on which update is called,
    cam_other,        \*   its argument,
    cam_before,       \*   and history: the Camera as it was before the call
    thread,           \* the threads calling get_camera: position and locals
    builds,           \* history: the cameras built, in the order of the builds
    wcs,              \* the external WCS factory: what it gives for North
    rot_calls         \* history: the calls of compute_rotSkyPos and their results

vars == <<pc, exc, lsst_obs, ccd_params, eimage, camera_cache, rotSkyPos_cache,
          self, amp_images, amp_arrays, amp, dark_time, idx, log, noise_args,
          eimage_in, phdu, call, ret, hdus, calls_left, eimage_log, cam_self,
          cam_other, cam_before, thread, builds, wcs, rot_calls>>

output == <<hdus, calls_left, eimage_log>>

merging == <<cam_self, cam_other, cam_before>>

threads == <<thread, builds>>

angles == <<wcs, rot_calls>>

inputs == <<lsst_obs, ccd_params, eimage_in>>

caches == <<camera_cache, rotSkyPos_cache>>

pure == <<call, ret>>

locals == <<amp_arrays, amp, dark_time, idx>>

history == <<log, noise_args>>

EmptyCache == [k \in {} |-> 0]

\* no Camera.update, no threads, no calls of compute_rotSkyPos
NoMerging == cam_self = None /\ cam_other = None /\ cam_before = None

NoThreads == thread = <<>> /\ builds = <<>>

NoAngles == wcs = EmptyCache /\ rot_calls = <<>>

NoPipeline ==
    /\ exc = "none"
    /\ hdus = None
    /\ calls_left = 0
    /\ eimage_log = <<>>
    /\ lsst_obs = EmptyCache
    /\ ccd_params = EmptyDict
    /\ eimage = None
    /\ eimage_in = None
    /\ camera_cache = EmptyCache
    /\ rotSkyPos_cache = EmptyCache
    /\ self = None
    /\ amp_images = <<>>
    /\ amp_arrays = <<>>
    /\ amp = None
    /\ dark_time = Zero
    /\ idx = 0
    /\ log = <<>>
    /\ noise_args = <<>>
    /\ phdu = None

InitCall ==
    /\ pc = "call"
    /\ call \in CteCalls \cup XtalkCalls
    /\ ret = NoRet
    /\ NoPipeline
    /\ NoMerging /\ NoThreads /\ NoAngles

RunStartsWith(ccd, image, params, more) ==
    /\ pc = "new"
    /\ exc = "none"
    /\ lsst_obs = LsstObs(ccd)
    /\ ccd_params = params
    /\ eimage = image
    /\ eimage_in = image
    /\ camera_cache = EmptyCache
    /\ rotSkyPos_cache = EmptyCache
    /\ self = None
    /\ amp_images = <<>>
    /\ amp_arrays = <<>>
    /\ amp = None
    /\ dark_time = Zero
    /\ idx = 0
    /\ log = <<>>
    /\ noise_args = <<>>
    /\ phdu = None
    /\ call = NoCall
    /\ ret = NoRet
    /\ hdus = None
    /\ calls_left = more
    /\ eimage_log = <<>>
    /\ NoMerging /\ NoThreads /\ NoAngles

RunStarts(ccd, image, params) == RunStartsWith(ccd, image, params, 0)

InitRun ==
    \E flip \in 0..3, elec \in {"unit", "varied"}, origin \in {0, 1},
       xtalk \in BOOLEAN, kind \in ImageKinds, params \in ParamSets :
        /\ RunChoice(flip, elec, origin, xtalk, kind, params)
        /\ RunStarts(LsstCcd(NumAmps, AmpWidth, AmpHeight, flip, elec, origin, xtalk),
                     EImage(kind, NumAmps, AmpWidth, AmpHeight, "LsstCam", DecInt(30)),
                     params)

InitE2E ==
    \E camera_name \in {"LsstCam", "LsstCamImSim"} :
        RunStarts(LsstCcd(E2EAmps, E2ESize, E2ESize, 0, "unit", 0, FALSE),
                  EImage("zero", E2EAmps, E2ESize, E2ESize, camera_name, DecInt(30)),
                  E2EParams)

\* a header without one of its keys
Without(header, key) == [k \in DOMAIN header \ {key} |-> header[k]]

\* runs whose electron image lacks one of the header keys that CcdReadout and
\* get_primary_hdu read
InitMissingKey ==
    \E i \in DOMAIN primary_hdu_keys, camera_name \in {"LsstCam", "LsstCamImSim"} :
        LET image == EImage("ramp", NumAmps, AmpWidth, AmpHeight, camera_name, DecInt(30))
        IN  RunStarts(LsstCcd(NumAmps, AmpWidth, AmpHeight, 1, "unit", 0, FALSE),
                      [image EXCEPT !.header = Without(@, primary_hdu_keys[i])],
                      E2EParams)

\* runs for a camera class that get_camera does not know
InvalidCameras == {"LsstCamX", "HSC"}

InitInvalidCamera ==
    \E camera_name \in InvalidCameras, kind \in ImageKinds, params \in ParamSets :
        RunStarts(LsstCcd(NumAmps, AmpWidth, AmpHeight, 0, "unit", 0, FALSE),
                  EImage(kind, NumAmps, AmpWidth, AmpHeight, camera_name, DecInt(30)),
                  params)

\* a detector with its amplifiers named in the opposite order
Renamed(lsst_ccd) ==
    [lsst_ccd EXCEPT !.amps =
        [i \in DOMAIN @ |-> [@[i] EXCEPT !.name = lsst_amp_names[Len(lsst_ccd.amps) + 1 - i]]]]

\* runs for a detector whose amplifiers do not come in the order of the
\* channels of prepare_hdus
InitRenamed ==
    \E flip \in 0..3, kind \in {"zero", "ramp"} :
        RunStarts(Renamed(LsstCcd(NumAmps, AmpWidth, AmpHeight, flip, "unit", 0, FALSE)),
                  EImage(kind, NumAmps, AmpWidth, AmpHeight, "LsstCam", DecInt(30)),
                  E2EParams)

\* how many times the caller calls prepare_hdus on one CcdReadout
MaxCalls == 2

\* runs in which prepare_hdus is called MaxCalls times
InitRepeat ==
    \E kind \in ImageKinds, dark_current \in {Zero, DecFrac(200, 1)} :
        RunStartsWith(LsstCcd(NumAmps, AmpWidth, AmpHeight, 0, "unit", 0, FALSE),
                      EImage(kind, NumAmps, AmpWidth, AmpHeight, "LsstCam", DecInt(30)),
                      [E2EParams EXCEPT !.dark_current = dark_current],
                      MaxCalls - 1)

\* calls of compute_rotSkyPos on its own.  The boresight, the rotator angle
\* and the MJD are those of the electron images; the band, the camera and the
\* legs of the triangle (dxy, pixel_scale) vary
MaxRotCalls == 2

RotBands == {"r", "x"}

RotCameras == {"LsstCam", "LsstCamImSim"}

Legs ==
    {[dxy |-> 100, pixel_scale |-> DecFrac(2000, 1)],
     [dxy |-> 200, pixel_scale |-> DecFrac(2000, 1)],
     [dxy |-> 100, pixel_scale |-> DecFrac(4000, 1)]}

\* what the WCS of the factory depends on: the band it is made for, the
\* camera, and the legs
WcsKeys == [band : {coerced_band(b) : b \in RotBands}, camera : RotCameras, leg : Legs]

\* factories: North at 30 degrees whatever the legs; North between 30 and 32
\* degrees for LsstCam and at 120 degrees towards lower x for LsstCamImSim,
\* depending on the legs through the distortion of the field; and North
\* along +y up to rounding, with x2 below x1 by less than cos_theta resolves
WcsChoices ==
    {[k \in WcsKeys |-> [theta |-> 30, west |-> FALSE]],
     [k \in WcsKeys |->
         IF k.camera = "LsstCamImSim" THEN [theta |-> 120, west |-> TRUE]
         ELSE [theta |-> 30 + (k.leg.dxy \div 100) - 1 + (IF k.leg.pixel_scale = DecFrac(4000, 1) THEN 2 ELSE 0),
               west |-> FALSE]],
     [k \in WcsKeys |-> [theta |-> 0, west |-> TRUE]]}

InitAngles ==
    /\ pc = "angles"
    /\ call = [fn |-> "compute_rotSkyPos"]
    /\ ret = NoRet
    /\ wcs \in WcsChoices
    /\ rot_calls = <<>>
    /\ thread = <<>>
    /\ builds = <<>>
    /\ exc = "none"
    /\ lsst_obs = LsstObs(LsstCcd(NumAmps, AmpWidth, AmpHeight, 0, "unit", 0, FALSE))
    /\ ccd_params = EmptyDict
    /\ eimage = None
    /\ eimage_in = None
    /\ camera_cache = EmptyCache
    /\ rotSkyPos_cache = EmptyCache
    /\ self = None
    /\ amp_images = <<>>
    /\ amp_arrays = <<>>
    /\ amp = None
    /\ dark_time = Zero
    /\ idx = 0
    /\ log = <<>>
    /\ noise_args = <<>>
    /\ phdu = None
    /\ hdus = None
    /\ calls_left = 0
    /\ eimage_log = <<>>
    /\ NoMerging

\* the threads that call get_camera at the same time
NumThreads == 2

InitThreads ==
    /\ pc = "threads"
    /\ call = [fn |-> "get_camera"]
    /\ ret = NoRet
    /\ thread \in [1..NumThreads ->
                      [pc : {"check"}, camera : {"LsstCam", "LsstCamImSim"},
                       obj : {None}, ret : {None}]]
    /\ builds = <<>>
    /\ exc = "none"
    /\ lsst_obs = LsstObs(LsstCcd(NumAmps, AmpWidth, AmpHeight, 0, "unit", 0, FALSE))
    /\ ccd_params = EmptyDict
    /\ eimage = None
    /\ eimage_in = None
    /\ camera_cache = EmptyCache
    /\ rotSkyPos_cache = EmptyCache
    /\ self = None
    /\ amp_images = <<>>
    /\ amp_arrays = <<>>
    /\ amp = None
    /\ dark_time = Zero
    /\ idx = 0
    /\ log = <<>>
    /\ noise_args = <<>>
    /\ phdu = None
    /\ hdus = None
    /\ calls_left = 0
    /\ eimage_log = <<>>
    /\ NoMerging /\ NoAngles

\* the cameras given to Camera.update: the base camera again; its detector
\* with other gains, read noises and crosstalk; with its first amplifier only;
\* with one amplifier more; and a camera with another detector
OtherDetName == <<"R22", "S12">>

UpdateCameras ==
    LET base   == LsstCcd(NumAmps, AmpWidth, AmpHeight, 0, "unit", 0, FALSE)
        varied == LsstCcd(NumAmps, AmpWidth, AmpHeight, 0, "varied", 0, TRUE)
    IN  {[detectors |-> (DetName :> c)] :
            c \in {base, varied,
                   LsstCcd(1, AmpWidth, AmpHeight, 3, "varied", 0, FALSE),
                   LsstCcd(NumAmps + 1, AmpWidth, AmpHeight, 0, "varied", 0, FALSE)}}
        \cup {[detectors |-> (OtherDetName :> varied)]}

InitUpdate ==
    /\ pc = "update"
    /\ call = [fn |-> "Camera.update"]
    /\ ret = NoRet
    /\ cam_self = Some(Camera_of([detectors |->
                      (DetName :> LsstCcd(NumAmps, AmpWidth, AmpHeight, 0, "unit", 0, FALSE))]))
    /\ cam_before = cam_self
    /\ \E c \in UpdateCameras : cam_other = Some(Camera_of(c))
    /\ NoPipeline
    /\ NoThreads /\ NoAngles

\* calls of make_batches: lists of 0 .. MaxObjects objects, told apart by
\* their numbers, and 1 .. MaxBatches batches
MaxObjects == 5

MaxBatches == 3

InitBatches ==
    /\ pc = "batches"
    /\ \E n \in 0..MaxObjects, nbatch \in 1..MaxBatches :
          call = [fn |-> "make_batches", objects |-> [i \in 1..n |-> i], nbatch |-> nbatch]
    /\ ret = NoRet
    /\ NoPipeline
    /\ NoMerging /\ NoThreads /\ NoAngles

Init ==
    \/ InitCall
    \/ InitBatches
    \/ InitRun
    \/ InitE2E
    \/ InitMissingKey
    \/ InitInvalidCamera
    \/ InitRenamed
    \/ InitRepeat
    \/ InitUpdate
    \/ InitThreads
    \/ InitAngles

(***************************************************************************)
(* Calls of the pure functions                                             *)
(***************************************************************************)
\* cte = cte_matrix(npix, cti, ntransfers); qout = numpy.dot(cte, qin)
CallCteMatrix ==
    /\ pc = "call"
    /\ call.fn = "cte_matrix"
    /\ ret = NoRet
    /\ LET cte == cte_matrix(call.npix, call.cti, call.ntransfers)
       IN  ret' = [fn |-> "cte_matrix", cte |-> cte, qout |-> MatVec(cte, call.qin)]
    /\ UNCHANGED <<pc, exc, inputs, eimage, caches, self, amp_images, locals,
                   history, phdu, call>>
    /\ UNCHANGED <<output, merging, threads, angles>>

\* apply_crosstalk(amp_arrays) of a CcdReadout whose ccd.xtalk is xtalk
CallApplyCrosstalk ==
    /\ pc = "call"
    /\ call.fn = "apply_crosstalk"
    /\ ret = NoRet
    /\ ret' = [fn |-> "apply_crosstalk",
               out |-> apply_crosstalk(call.xtalk, call.amp_arrays)]
    /\ UNCHANGED <<pc, exc, inputs, eimage, caches, self, amp_images, locals,
                   history, phdu, call>>
    /\ UNCHANGED <<output, merging, threads, angles>>

\* get_camera (camera.py 136-155) when nothing interrupts it: the camera returned and the cache after the call
get_camera(cache, camera) ==
    IF camera \notin valid_cameras THEN Raise("ValueError")
    ELSE LET filled == IF camera \in DOMAIN cache THEN cache
                       ELSE cache @@ (camera :> lsst_obs[camera])
         IN  [exc |-> "none", val |-> filled[camera], cache |-> filled]

(***************************************************************************)
(* get_camera (camera.py 136-155) called by several threads.  Nothing in   *)
(* it holds a lock, so a thread may be suspended between the test of line  *)
(* 153, the build of the camera, the store of line 154 and the read of     *)
(* line 155.  Every build gives a new object, told apart by its number.    *)
(***************************************************************************)
\* lines 151-153
ThreadCheck(t) ==
    /\ pc = "threads"
    /\ thread[t].pc = "check"
    /\ thread' = [thread EXCEPT ![t].pc =
                     IF thread[t].camera \notin valid_cameras THEN "raised"
                     ELSE IF thread[t].camera \notin DOMAIN camera_cache THEN "build"
                     ELSE "return"]
    /\ UNCHANGED <<builds, camera_cache>>

\* line 154, the right-hand side: doImport(...)().getCamera()
ThreadBuild(t) ==
    /\ pc = "threads"
    /\ thread[t].pc = "build"
    /\ builds' = Append(builds, thread[t].camera)
    /\ thread' = [thread EXCEPT
                     ![t].obj = Some([build  |-> Len(builds) + 1,
                                      camera |-> lsst_obs[thread[t].camera]]),
                     ![t].pc = "store"]
    /\ UNCHANGED camera_cache

\* line 154, the assignment to _camera_cache[camera]
ThreadStore(t) ==
    /\ pc = "threads"
    /\ thread[t].pc = "store"
    /\ camera_cache' = [c \in DOMAIN camera_cache \cup {thread[t].camera} |->
                           IF c = thread[t].camera THEN thread[t].obj.v
                           ELSE camera_cache[c]]
    /\ thread' = [thread EXCEPT ![t].pc = "return"]
    /\ UNCHANGED builds

\* line 155
ThreadReturn(t) ==
    /\ pc = "threads"
    /\ thread[t].pc = "return"
    /\ thread' = [thread EXCEPT ![t].ret = Some(camera_cache[thread[t].camera]),
                                ![t].pc = "done"]
    /\ UNCHANGED <<builds, camera_cache>>

ThreadStep ==
    /\ \E t \in DOMAIN thread :
          ThreadCheck(t) \/ ThreadBuild(t) \/ ThreadStore(t) \/ ThreadReturn(t)
    /\ UNCHANGED <<pc, exc, inputs, eimage, rotSkyPos_cache, self, amp_images,
                   locals, history, phdu, pure>>
    /\ UNCHANGED <<output, merging, angles>>

\* compute_rotSkyPos(0, 0, 0, 60000, band, camera_name, dxy, pixel_scale); on
\* a miss make_batoid_wcs also calls get_camera (readout.py 58)
CallRotSkyPos ==
    /\ pc = "angles"
    /\ Len(rot_calls) < MaxRotCalls
    /\ \E band \in RotBands, camera_name \in RotCameras, leg \in Legs :
          LET args  == <<0, 0, 0, 60000, band, camera_name>>
              north == wcs[[band |-> coerced_band(band), camera |-> camera_name,
                            leg |-> leg]]
              rot   == compute_rotSkyPos(rotSkyPos_cache, 0, 0, 0, 60000, band,
                                         camera_name, north)
          IN  /\ rotSkyPos_cache' = rot.cache
              /\ camera_cache' = IF args \in DOMAIN rotSkyPos_cache THEN camera_cache
                                 ELSE get_camera(camera_cache, camera_name).cache
              /\ rot_calls' = Append(rot_calls,
                                     [args |-> args, leg |-> leg, theta |-> rot.theta])
    /\ UNCHANGED <<pc, exc, inputs, eimage, self, amp_images, locals, history,
                   phdu, pure, wcs>>
    /\ UNCHANGED <<output, merging, threads>>

\* self.update(other) for two Cameras: self is changed in place and the call
\* returns None
CallCameraUpdate ==
    /\ pc = "update"
    /\ cam_self' = Some(Camera_update(cam_self.v, cam_other.v))
    /\ ret' = [fn |-> "Camera.update", out |-> None]
    /\ pc' = "updated"
    /\ UNCHANGED <<exc, inputs, eimage, caches, self, amp_images, locals,
                   history, phdu, call, cam_other, cam_before>>
    /\ UNCHANGED <<output, threads, angles>>

(***************************************************************************)
(* CcdReadout.__init__ (readout.py 263-284), with Camera.__init__ and      *)
(* get_camera (camera.py 136-170)                                          *)
(***************************************************************************)
\* the default of the scti and pcti parameters, 1.0e-6
DefaultCti == DecFrac(100, 2)

\* lines 281-284 without the test for 0: the operator is always built
cte_operator_always(npix, cti) == Some(cte_matrix(npix, cti, DefaultTransfers))

\* lines 281-284: no operator for a CTI of 0, else cte_matrix with the default
\* ntransfers
cte_operator(npix, cti) ==
    IF cti = Zero THEN None ELSE Some(cte_matrix(npix, cti, DefaultTransfers))

\* the attributes __init__ sets, for the CCD found
new_readout(header, ccd, params) ==
    LET scti == Get(params, "scti", DefaultCti)
        pcti == Get(params, "pcti", DefaultCti)
        amp_bounds == ccd.amps[1].raw_bounds
    IN  [det_name     |-> header["DET_NAME"],
         camera_name  |-> header["CAMERA"],
         ccd          |-> ccd,
         exp_time     |-> Get(params, "exp_time", DecInt(30)),
         readout_time |-> Get(params, "readout_time", DecInt(2)),
         dark_current |-> Get(params, "dark_current", DecFrac(200, 1)),
         bias_level   |-> Get(params, "bias_level", DecInt(1000)),
         full_well    |-> Get(params, "full_well", DecInt(100000)),
         scte_matrix  |-> cte_operator(amp_bounds.xmax, scti),
         pcte_matrix  |-> cte_operator(amp_bounds.ymax, pcti)]

CcdReadout_init ==
    /\ pc = "new"
    /\ LET header == eimage.header
           cam    == get_camera(camera_cache, header["CAMERA"])
       IN  IF ~({"DET_NAME", "CAMERA"} \subseteq DOMAIN header)
           THEN /\ pc' = "raised" /\ exc' = "KeyError"
                /\ UNCHANGED <<self, camera_cache>>
           ELSE IF cam.exc # "none"
           THEN /\ pc' = "raised" /\ exc' = cam.exc
                /\ UNCHANGED <<self, camera_cache>>
           ELSE IF header["DET_NAME"] \notin DOMAIN cam.val.detectors
           THEN /\ pc' = "raised" /\ exc' = "KeyError"
                /\ camera_cache' = cam.cache
                /\ UNCHANGED self
           ELSE LET ccd == make_ccd_from_lsst(cam.val.detectors[header["DET_NAME"]])
                IN  IF Len(ccd.amps) = 0
                    THEN /\ pc' = "raised" /\ exc' = "IndexError"
                         /\ camera_cache' = cam.cache
                         /\ UNCHANGED self
                    ELSE /\ pc' = "bleed" /\ exc' = "none"
                         /\ camera_cache' = cam.cache
                         /\ self' = Some(new_readout(header, ccd, ccd_params))
    /\ UNCHANGED <<inputs, eimage, rotSkyPos_cache, amp_images, locals, history,
                   phdu, pure>>
    /\ UNCHANGED <<output, merging, threads, angles>>

(***************************************************************************)
(* CcdReadout.build_amp_images (readout.py 308-364), one step per stage    *)
(* and, in the loops over the amplifiers, one step per iteration           *)
(***************************************************************************)
Event(stage, k) == [stage |-> stage, amp |-> k]

\* the order with the bias and read noise added before apply_cte is called
StageAfter_bias_first(stage) ==
    CASE stage = "bleed"        -> "dark"
      [] stage = "dark"         -> "segment"
      [] stage = "segment"      -> "crosstalk"
      [] stage = "crosstalk"    -> "embed"
      [] stage = "embed"        -> "bias"
      [] stage = "bias"         -> "cte_parallel"
      [] stage = "cte_parallel" -> "cte_serial"
      [] stage = "cte_serial"   -> "primary_hdu"

\* the order of the statements of build_amp_images and of apply_cte: the
\* stage that follows each stage once it is done for every amplifier (within
\* apply_cte, for one full_segment)
StageAfter(stage) ==
    CASE stage = "bleed"        -> "dark"
      [] stage = "dark"         -> "segment"
      [] stage = "segment"      -> "crosstalk"
      [] stage = "crosstalk"    -> "embed"
      [] stage = "embed"        -> "cte_parallel"
      [] stage = "cte_parallel" -> "cte_serial"
      [] stage = "cte_serial"   -> "bias"
      [] stage = "bias"         -> "primary_hdu"

\* line 322
Bleed ==
    /\ pc = "bleed"
    /\ eimage' = [eimage EXCEPT !.array = bleed_eimage(@, self.v.full_well)]
    /\ log' = Append(log, Event("bleed", 0))
    /\ pc' = StageAfter("bleed")
    /\ UNCHANGED <<exc, inputs, caches, self, amp_images, locals, noise_args,
                   phdu, pure>>
    /\ UNCHANGED <<output, merging, threads, angles>>

\* lines 325-330
DarkCurrent ==
    /\ pc = "dark"
    /\ LET time == DecAdd(self.v.exp_time, self.v.readout_time)
           mean == DecMul(self.v.dark_current, time)
           h    == NRows(eimage.array)
           w    == NCols(eimage.array)
       IN  /\ dark_time' = time
           /\ \E dc_data \in (IF mean = Zero THEN {Zeros(h, w)} ELSE PoissonDraws(h, w)) :
                 eimage' = [eimage EXCEPT !.array = array_add(@, dc_data)]
    /\ log' = Append(log, Event("dark", 0))
    /\ idx' = 0
    /\ pc' = StageAfter("dark")
    /\ UNCHANGED <<exc, inputs, caches, self, amp_images, amp_arrays, amp,
                   noise_args, phdu, pure>>
    /\ UNCHANGED <<output, merging, threads, angles>>

\* lines 335-341, one iteration
Segment ==
    /\ pc = "segment"
    /\ LET a == self.v.ccd.amps[idx + 1]
       IN  /\ amp' = Some(a)
           /\ IF includes(eimage.bounds, a.bounds)
              THEN /\ amp_arrays' = Append(amp_arrays, amp_segment(eimage, a))
                   /\ log' = Append(log, Event("segment", idx + 1))
                   /\ idx' = idx + 1
                   /\ pc' = IF idx + 1 = Len(self.v.ccd.amps) THEN StageAfter("segment")
                            ELSE "segment"
                   /\ exc' = "none"
              ELSE /\ pc' = "raised" /\ exc' = "GalSimBoundsError"
                   /\ UNCHANGED <<amp_arrays, log, idx>>
    /\ UNCHANGED <<inputs, eimage, caches, self, amp_images, dark_time,
                   noise_args, phdu, pure>>
    /\ UNCHANGED <<output, merging, threads, angles>>

\* lines 344 and 347
Crosstalk ==
    /\ pc = "crosstalk"
    /\ LET out == apply_crosstalk(self.v.ccd.xtalk, amp_arrays)
       IN  IF out.exc = "none"
           THEN /\ amp_arrays' = out.val
                /\ amp_images' = <<>>
                /\ log' = Append(log, Event("crosstalk", 0))
                /\ idx' = 0
                /\ pc' = IF ZipLen(out.val, self.v.ccd.amps) = 0 THEN "primary_hdu"
                         ELSE StageAfter("crosstalk")
                /\ exc' = "none"
           ELSE /\ pc' = "raised" /\ exc' = out.exc
                /\ UNCHANGED <<amp_arrays, amp_images, log, idx>>
    /\ UNCHANGED <<inputs, eimage, caches, self, amp, dark_time, noise_args,
                   phdu, pure>>
    /\ UNCHANGED <<output, merging, threads, angles>>

\* lines 348-351, one iteration, and line 354's start after the last
Embed ==
    /\ pc = "embed"
    /\ LET a   == self.v.ccd.amps[idx + 1]
           seg == full_segment_of(amp_arrays[idx + 1], a)
       IN  /\ amp' = Some(a)
           /\ IF seg.exc = "none"
              THEN /\ amp_images' = Append(amp_images, seg.val)
                   /\ log' = Append(log, Event("embed", idx + 1))
                   /\ idx' = IF idx + 1 = ZipLen(amp_arrays, self.v.ccd.amps) THEN 0
                             ELSE idx + 1
                   /\ pc' = IF idx + 1 = ZipLen(amp_arrays, self.v.ccd.amps)
                            THEN StageAfter("embed") ELSE "embed"
                   /\ exc' = "none"
              ELSE /\ pc' = "raised" /\ exc' = seg.exc
                   /\ UNCHANGED <<amp_images, log, idx>>
    /\ UNCHANGED <<inputs, eimage, caches, self, amp_arrays, dark_time,
                   noise_args, phdu, pure>>
    /\ UNCHANGED <<output, merging, threads, angles>>

\* apply_cte, lines 290-292 for one full_segment
CteParallel ==
    /\ pc = "cte_parallel"
    /\ LET out == cte_parallel(self.v.pcte_matrix, amp_images[idx + 1].array)
       IN  IF out.exc = "none"
           THEN /\ amp_images' = [amp_images EXCEPT ![idx + 1].array = out.val]
                /\ log' = Append(log, Event("cte_parallel", idx + 1))
                /\ pc' = StageAfter("cte_parallel")
                /\ exc' = "none"
           ELSE /\ pc' = "raised" /\ exc' = out.exc
                /\ UNCHANGED <<amp_images, log>>
    /\ UNCHANGED <<inputs, eimage, caches, self, locals, noise_args, phdu, pure>>
    /\ UNCHANGED <<output, merging, threads, angles>>

\* apply_cte, lines 293-295 for one full_segment
CteSerial ==
    /\ pc = "cte_serial"
    /\ LET out == cte_serial(self.v.scte_matrix, amp_images[idx + 1].array)
       IN  IF out.exc = "none"
           THEN /\ amp_images' = [amp_images EXCEPT ![idx + 1].array = out.val]
                /\ log' = Append(log, Event("cte_serial", idx + 1))
                /\ idx' = IF idx + 1 = Len(amp_images) THEN 0 ELSE idx + 1
                /\ pc' = IF idx + 1 = Len(amp_images) THEN StageAfter("cte_serial")
                         ELSE "cte_parallel"
                /\ exc' = "none"
           ELSE /\ pc' = "raised" /\ exc' = out.exc
                /\ UNCHANGED <<amp_images, log, idx>>
    /\ UNCHANGED <<inputs, eimage, caches, self, amp_arrays, amp, dark_time,
                   noise_args, phdu, pure>>
    /\ UNCHANGED <<output, merging, threads, angles>>

\* lines 357-364, one iteration: amp is the variable the loops above left
BiasNoise ==
    /\ pc = "bias"
    /\ LET full_arr   == amp_images[idx + 1].array
           read_noise == amp.v.read_noise
           biased     == array_add_scalar(full_arr, self.v.bias_level)
       IN  /\ noise_args' = Append(noise_args, read_noise)
           /\ \E draw \in (IF read_noise = Zero
                           THEN {Zeros(NRows(full_arr), NCols(full_arr))}
                           ELSE GaussianDraws(NRows(full_arr), NCols(full_arr))) :
                 amp_images' = [amp_images EXCEPT ![idx + 1].array =
                                   array_add(biased, np_scale(draw, read_noise))]
    /\ log' = Append(log, Event("bias", idx + 1))
    /\ idx' = IF idx + 1 = Len(amp_images) THEN 0 ELSE idx + 1
    /\ pc' = IF idx + 1 = Len(amp_images) THEN StageAfter("bias") ELSE "bias"
    /\ UNCHANGED <<exc, inputs, eimage, caches, self, amp_arrays, amp, dark_time,
                   phdu, pure>>
    /\ UNCHANGED <<output, merging, threads, angles>>

(***************************************************************************)
(* CcdReadout.prepare_hdus after build_amp_images: get_primary_hdu         *)
(* (readout.py 386)                                                        *)
(***************************************************************************)
PrimaryHdu ==
    /\ pc = "primary_hdu"
    /\ LET header  == eimage.header
           missing == {i \in DOMAIN primary_hdu_keys :
                          primary_hdu_keys[i] \notin DOMAIN header}
       IN  IF missing # {}
           THEN /\ pc' = "raised" /\ exc' = "KeyError"
                /\ UNCHANGED <<phdu, rotSkyPos_cache>>
           ELSE IF Len(header["DET_NAME"]) # 2
           THEN /\ pc' = "raised" /\ exc' = "ValueError"
                /\ UNCHANGED <<phdu, rotSkyPos_cache>>
           ELSE \E north \in NorthOutcomes :
                   LET rot == compute_rotSkyPos(rotSkyPos_cache, header["RATEL"],
                                  header["DECTEL"], header["ROTTELPOS"],
                                  header["MJD-OBS"], header["FILTER"],
                                  header["CAMERA"], north)
                   IN  /\ phdu' = Some(primary_header(header, rot.theta))
                       /\ rotSkyPos_cache' = rot.cache
                       /\ pc' = "image_hdus" /\ exc' = "none"
    /\ UNCHANGED <<inputs, eimage, camera_cache, self, amp_images, locals,
                   history, pure>>
    /\ UNCHANGED <<output, merging, threads, angles>>

\* readout.py 387-412: the image HDUs and the return of prepare_hdus
ImageHdus ==
    /\ pc = "image_hdus"
    /\ LET out == image_hdus(<<>>, amp_images, self.v.ccd)
       IN  IF out.exc = "none"
           THEN /\ hdus' = Some([primary |-> phdu.v, images |-> out.val])
                /\ eimage_log' = Append(eimage_log, eimage)
                /\ pc' = "done" /\ exc' = "none"
           ELSE /\ pc' = "raised" /\ exc' = out.exc
                /\ UNCHANGED <<hdus, eimage_log>>
    /\ UNCHANGED <<inputs, eimage, caches, self, amp_images, locals, history,
                   phdu, pure, calls_left>>
    /\ UNCHANGED <<merging, threads, angles>>

\* the caller calls prepare_hdus again on the same CcdReadout: the locals of
\* build_amp_images are new, self and the electron image are as the first
\* call left them
CallAgain ==
    /\ pc = "done"
    /\ calls_left > 0
    /\ calls_left' = calls_left - 1
    /\ pc' = "bleed"
    /\ amp_arrays' = <<>>
    /\ amp' = None
    /\ dark_time' = Zero
    /\ idx' = 0
    /\ log' = <<>>
    /\ noise_args' = <<>>
    /\ phdu' = None
    /\ hdus' = None
    /\ UNCHANGED <<exc, inputs, eimage, caches, self, amp_images, pure, eimage_log>>
    /\ UNCHANGED <<merging, threads, angles>>

\* the caller takes the next item of make_batches(objects, nbatch); the
\* body of the generator starts to run at the first one, with lines 63-64
NextBatch ==
    /\ pc = "batches"
    /\ IF ret = NoRet THEN TRUE ELSE ~ret.stopped
    /\ LET frame == IF ret = NoRet
                    THEN [fn |-> "make_batches",
                          per_batch |-> Len(call.objects) \div call.nbatch,
                          o_iter |-> 0, batches |-> <<>>, stopped |-> FALSE]
                    ELSE ret
       IN  ret' = next_batch(frame, call.objects, call.nbatch)
    /\ UNCHANGED <<pc, exc, inputs, eimage, caches, self, amp_images, locals,
                   history, phdu, call>>
    /\ UNCHANGED <<output, merging, threads, angles>>

Next ==
    \/ CallCteMatrix
    \/ NextBatch
    \/ CallApplyCrosstalk
    \/ CallCameraUpdate
    \/ ThreadStep
    \/ CallRotSkyPos
    \/ CcdReadout_init
    \/ Bleed
    \/ DarkCurrent
    \/ Segment
    \/ Crosstalk
    \/ Embed
    \/ CteParallel
    \/ CteSerial
    \/ BiasNoise
    \/ PrimaryHdu
    \/ ImageHdus
    \/ CallAgain

Spec == Init /\ [][Next]_vars

(***************************************************************************)
(* C1.  For one detector run the stages of build_amp_images execute in the *)
(* strict order saturation bleed, dark current, segmentation + gain +      *)
(* flip, crosstalk, embedding, CTI (for each frame the parallel direction  *)
(* first, then the serial one), bias + read noise; no stage starts before  *)
(* the previous one is done for all amplifiers, and each works on the      *)
(* complete output of the previous one.                                    *)
(***************************************************************************)
\* the steps of a complete run for n amplifiers
ExpectedLog(n) ==
    <<Event("bleed", 0), Event("dark", 0)>>
    \o [k \in 1..n |-> Event("segment", k)]
    \o <<Event("crosstalk", 0)>>
    \o [k \in 1..n |-> Event("embed", k)]
    \o [m \in 1..(2 * n) |->
           IF m % 2 = 1 THEN Event("cte_parallel", (m + 1) \div 2)
           ELSE Event("cte_serial", m \div 2)]
    \o [k \in 1..n |-> Event("bias", k)]

IsPrefix(s, t) == Len(s) <= Len(t) /\ s = SubSeq(t, 1, Len(s))

StagesInStrictOrder ==
    ~self.none =>
        LET n == Len(self.v.ccd.amps)
        IN  /\ IsPrefix(log, ExpectedLog(n))
            /\ pc \in {"primary_hdu", "done"} => log = ExpectedLog(n)
            /\ pc = "crosstalk" => Len(amp_arrays) = n
            /\ pc \in {"cte_parallel", "cte_serial", "bias"} =>
                  Len(amp_arrays) = n /\ Len(amp_images) = n

\* a run with both CTE operators has gone through every stage
CompleteRunWithBothCte ==
    /\ pc = "done"
    /\ ~self.v.scte_matrix.none
    /\ ~self.v.pcte_matrix.none
    /\ log = ExpectedLog(NumAmps)

(***************************************************************************)
(* C2.  cte_matrix(npix, cti, max_transfers) is the npix x npix matrix     *)
(* with, 0-indexed, M[i][i] = (1-cti)^(i+1), M[i][j] = C(i, i-j) *         *)
(* (1-cti)^(j+1) * cti^(i-j) for j < i with i-j <= max_transfers, and 0    *)
(* for j > i and for j < i with i-j > max_transfers.                       *)
(***************************************************************************)
RECURSIVE Factorial(_)
Factorial(n) == IF n = 0 THEN 1 ELSE n * Factorial(n - 1)

Choose(n, k) == Factorial(n) \div (Factorial(k) * Factorial(n - k))

ClosedForm(i, j, cti, maxt) ==
    IF i = j THEN DecPow(DecSub(One, cti), i + 1)
    ELSE IF j < i /\ i - j <= maxt
    THEN DecMul(DecInt(Choose(i, i - j)),
                DecMul(DecPow(DecSub(One, cti), j + 1), DecPow(cti, i - j)))
    ELSE Zero

CteMatrixClosedForm ==
    ret.fn = "cte_matrix" =>
        /\ DOMAIN ret.cte = 0..(call.npix - 1)
        /\ \A i \in 0..(call.npix - 1) :
              /\ DOMAIN ret.cte[i] = 0..(call.npix - 1)
              /\ \A j \in 0..(call.npix - 1) :
                    ret.cte[i][j] = ClosedForm(i, j, call.cti, call.ntransfers)

\* a call with a truncated row and a nonzero CTI has returned
CteMatrixTruncatedCall ==
    /\ ret.fn = "cte_matrix"
    /\ call.npix = MaxNpix
    /\ call.ntransfers = 1
    /\ call.cti = DecFrac(1, 1)
    /\ ret.cte[MaxNpix - 1][MaxNpix - 2] # Zero
    /\ ret.cte[MaxNpix - 1][0] = Zero

(***************************************************************************)
(* C3.  As claimed: for npix = 4 and cti = 0.0001 every row of the matrix  *)
(* sums to 1 within floating tolerance when max_transfers >= npix - 1,     *)
(* and a truncated row sums to at most 1 (RowSumsAreOne).  What holds: a   *)
(* row that is not truncated sums to exactly 1 - cti = 0.9999, and a       *)
(* truncated row to less than that, so to at most 1 (RowSumsAreOneMinusCti)*)
(***************************************************************************)
RowSum(m, i) == DecSum([j \in 1..NCols(m) |-> m[i][j - 1]])

\* 1e-5, the relative tolerance numpy's allclose takes by default
FloatTol == DecFrac(1000, 2)

Near(x, y) == DecLeq(DecSub(x, y), FloatTol) /\ DecLeq(DecSub(y, x), FloatTol)

RowSumCase == ret.fn = "cte_matrix" /\ call.npix = 4 /\ call.cti = DecFrac(1, 1)

RowSumsAreOne ==
    RowSumCase =>
        \A i \in 0..(call.npix - 1) :
            /\ call.ntransfers >= call.npix - 1 => Near(RowSum(ret.cte, i), One)
            /\ i > call.ntransfers => DecLeq(RowSum(ret.cte, i), One)

RowSumsAreOneMinusCti ==
    RowSumCase =>
        \A i \in 0..(call.npix - 1) :
            /\ i <= call.ntransfers => RowSum(ret.cte, i) = DecSub(One, call.cti)
            /\ i > call.ntransfers =>
                  /\ DecLeq(RowSum(ret.cte, i), DecSub(One, call.cti))
                  /\ RowSum(ret.cte, i) # DecSub(One, call.cti)
                  /\ DecLeq(RowSum(ret.cte, i), One)

\* the matrix for npix = 4, cti = 0.0001 and the default max_transfers
RowSumFullCall == RowSumCase /\ call.ntransfers = DefaultTransfers

(***************************************************************************)
(* C4.  For cti = 0 the CTE transform is the identity: cte_matrix(npix, 0) *)
(* applied to a charge vector returns it unchanged; in the pipeline a      *)
(* direction whose CTI is 0 has no operator (the matrix is None), and      *)
(* apply_cte leaves every frame unchanged along that direction.            *)
(***************************************************************************)
SerialCti == Get(ccd_params, "scti", DefaultCti)

ParallelCti == Get(ccd_params, "pcti", DefaultCti)

ZeroCtiIsIdentity ==
    /\ [](ret.fn = "cte_matrix" /\ call.cti = Zero => ret.qout = call.qin)
    /\ [](~self.none =>
            /\ SerialCti = Zero => self.v.scte_matrix.none
            /\ ParallelCti = Zero => self.v.pcte_matrix.none)
    /\ [][/\ pc = "cte_serial" /\ SerialCti = Zero => amp_images' = amp_images
          /\ pc = "cte_parallel" /\ ParallelCti = Zero => amp_images' = amp_images]_vars

\* apply_cte is done for a detector with parallel CTI only and a nonzero image
SerialCtiZeroRun ==
    /\ pc = "bias"
    /\ SerialCti = Zero
    /\ ~self.v.pcte_matrix.none
    /\ amp_images[1].array # Zeros(NRows(amp_images[1].array), NCols(amp_images[1].array))

(***************************************************************************)
(* C5.  apply_crosstalk on a list of amplifier arrays of one shape: with   *)
(* the crosstalk matrix None it returns the list unchanged; otherwise it   *)
(* returns one array per amplifier, in order, with output[i] = input[i] +  *)
(* sum over j of coeffs[i][j] * input[j], all from the inputs.             *)
(***************************************************************************)
SameShapes(arrays) ==
    \A i, j \in DOMAIN arrays : Shape(arrays[i]) = Shape(arrays[j])

MixedPixel(arrays, coeffs, i, r, c) ==
    DecAdd(arrays[i][r][c],
           DecSum([j \in 1..Len(arrays) |-> DecMul(coeffs[i - 1][j - 1], arrays[j][r][c])]))

CrosstalkMixesInputs ==
    ret.fn = "apply_crosstalk" =>
        /\ call.xtalk.none => ret.out = Ok(call.amp_arrays)
        /\ ~call.xtalk.none /\ SameShapes(call.amp_arrays) =>
              /\ ret.out.exc = "none"
              /\ DOMAIN ret.out.val = DOMAIN call.amp_arrays
              /\ \A i \in DOMAIN call.amp_arrays :
                    /\ Shape(ret.out.val[i]) = Shape(call.amp_arrays[i])
                    /\ \A r \in DOMAIN call.amp_arrays[i] :
                          \A c \in DOMAIN call.amp_arrays[i][r] :
                              ret.out.val[i][r][c] =
                                  MixedPixel(call.amp_arrays, call.xtalk.v, i, r, c)

\* [[0, 0.01], [0.02, 0]] (for two amplifiers) has mixed two different arrays
CrosstalkExampleCall ==
    /\ ret.fn = "apply_crosstalk"
    /\ call.xtalk = Some(XtalkExample(NumAmps))
    /\ call.amp_arrays[1] = Ramp(2, 2, 1, 1)
    /\ call.amp_arrays[2] = Ramp(2, 2, 10, 10)
    /\ SameShapes(call.amp_arrays)
    /\ ret.out.exc = "none"
    /\ ret.out.val[1] # call.amp_arrays[1]
    /\ ret.out.val[2] # call.amp_arrays[2]

(***************************************************************************)
(* C6.  When the amplifier arrays do not all share one shape and the       *)
(* crosstalk matrix is not None, apply_crosstalk fails and returns no      *)
(* mixed arrays.                                                           *)
(***************************************************************************)
CrosstalkRejectsMismatch ==
    ret.fn = "apply_crosstalk" /\ ~call.xtalk.none /\ ~SameShapes(call.amp_arrays)
        => ret.out.exc # "none"

(***************************************************************************)
(* C7.  Segmentation: for each amplifier in detector order the amplifier   *)
(* array is the bled, dark-current-added electron image cropped to the     *)
(* amplifier's visible bounds and divided by that amplifier's gain, its    *)
(* columns reversed iff raw_flip_x and its rows reversed iff raw_flip_y;   *)
(* the list ends with one array per amplifier, in detector order.          *)
(***************************************************************************)
\* the pixel of the electron image that lands at row r, column c of the array
\* of amplifier a
SourcePixel(a, r, c) ==
    LET x == IF a.raw_flip_x THEN a.bounds.xmax - c ELSE a.bounds.xmin + c
        y == IF a.raw_flip_y THEN a.bounds.ymax - r ELSE a.bounds.ymin + r
    IN  eimage.array[y - eimage.bounds.ymin][x - eimage.bounds.xmin]

SegmentIsCropGainFlip ==
    pc \in {"segment", "crosstalk"} =>
        /\ log = SubSeq(ExpectedLog(Len(self.v.ccd.amps)), 1, 2 + Len(amp_arrays))
        /\ pc = "crosstalk" => Len(amp_arrays) = Len(self.v.ccd.amps)
        /\ \A k \in 1..Len(amp_arrays) :
              LET a == self.v.ccd.amps[k]
              IN  /\ Shape(amp_arrays[k]) = numpyShape(a.bounds)
                  /\ \A r \in DOMAIN amp_arrays[k] :
                        \A c \in DOMAIN amp_arrays[k][r] :
                            DecMul(amp_arrays[k][r][c], DecInt(a.gain)) = SourcePixel(a, r, c)

\* every amplifier of a detector is segmented, one of them with both flips
\* and a gain above 1, from an image that got dark current
SegmentedFlippedAmp ==
    /\ pc = "crosstalk"
    /\ eimage.array # eimage_in.array
    /\ \E k \in 1..Len(amp_arrays) :
          /\ self.v.ccd.amps[k].raw_flip_x
          /\ self.v.ccd.amps[k].raw_flip_y
          /\ self.v.ccd.amps[k].gain > 1
          /\ amp_arrays[k] # subarray(eimage, self.v.ccd.amps[k].bounds)

(***************************************************************************)
(* C8.  Bias + read noise: the read-noise draw added to frame k uses the   *)
(* read-noise value of amplifier k itself, also when the amplifiers of the *)
(* detector differ in read noise.                                          *)
(***************************************************************************)
ReadNoiseOfOwnAmp ==
    ~self.none =>
        \A k \in 1..Len(noise_args) : noise_args[k] = self.v.ccd.amps[k].read_noise

(***************************************************************************)
(* C9.  The primary header built by get_primary_hdu carries a dark time    *)
(* equal to exposure time + readout time, the dark time of the dark        *)
(* current stage, for every exposure time and readout time.                *)
(***************************************************************************)
PrimaryDarkTimeIsExposurePlusReadout ==
    pc = "done" =>
        /\ phdu.v.DARKTIME = DecAdd(self.v.exp_time, self.v.readout_time)
        /\ phdu.v.DARKTIME = dark_time

(***************************************************************************)
(* C10.  End to end: a detector of 2 amplifiers of 10 x 10 visible pixels, *)
(* gain 1, no dark current, no serial or parallel CTI, no read noise, bias *)
(* 500 and an electron image of zeros gives exactly two raw frames, every  *)
(* pixel of which, visible data and prescan/overscan alike, is 500.        *)
(***************************************************************************)
EndToEndCase ==
    /\ ~self.none
    /\ pc \in {"primary_hdu", "done"}
    /\ Len(self.v.ccd.amps) = E2EAmps
    /\ \A k \in 1..Len(self.v.ccd.amps) :
          /\ numpyShape(self.v.ccd.amps[k].bounds) = <<E2ESize, E2ESize>>
          /\ self.v.ccd.amps[k].gain = 1
          /\ self.v.ccd.amps[k].read_noise = Zero
    /\ self.v.dark_current = Zero
    /\ SerialCti = Zero
    /\ ParallelCti = Zero
    /\ self.v.bias_level = DecInt(500)
    /\ eimage_in.array = Zeros(NRows(eimage_in.array), NCols(eimage_in.array))

EndToEndFramesAreBias ==
    EndToEndCase =>
        /\ Len(amp_images) = E2EAmps
        /\ \A k \in 1..Len(amp_images) :
              LET a == self.v.ccd.amps[k]
              IN  /\ amp_images[k].bounds = a.raw_bounds
                  /\ Shape(amp_images[k].array) = numpyShape(a.raw_bounds)
                  /\ includes(a.raw_bounds, a.raw_data_bounds)
                  /\ a.raw_bounds # a.raw_data_bounds
                  /\ \A r \in DOMAIN amp_images[k].array :
                        \A c \in DOMAIN amp_images[k].array[r] :
                            amp_images[k].array[r][c] = DecInt(500)

\* the end-to-end run is over
EndToEndRunDone == EndToEndCase /\ pc = "done" /\ log = ExpectedLog(E2EAmps)

(***************************************************************************)
(* C11.  Segmentation + flip + embed is a bijection on the visible pixels: *)
(* for every amplifier and every combination of the flip flags, with gain  *)
(* 1 and no crosstalk, the embedded raw frame is zero outside the raw data *)
(* bounds, and the raw data sub-rectangle with the same flips applied      *)
(* again is the amplifier's visible-pixel array; applying the x and the y  *)
(* flip twice restores any array.                                          *)
(***************************************************************************)
\* the flips of amplifier a applied to an array
Flipped(arr, a) ==
    LET fx == IF a.raw_flip_x THEN flip_columns(arr) ELSE arr
    IN  IF a.raw_flip_y THEN flip_rows(fx) ELSE fx

FlipTwiceRestores(arr) ==
    /\ flip_columns(flip_columns(arr)) = arr
    /\ flip_rows(flip_rows(arr)) = arr
    /\ flip_rows(flip_columns(flip_rows(flip_columns(arr)))) = arr

\* every frame is embedded and none has gone through apply_cte yet
FramesJustEmbedded == pc = "embed" \/ (pc = "cte_parallel" /\ idx = 0)

UnitGainNoCrosstalk ==
    /\ self.v.ccd.xtalk.none
    /\ \A k \in 1..Len(self.v.ccd.amps) : self.v.ccd.amps[k].gain = 1

SegmentFlipEmbedIsBijection ==
    /\ ret.fn = "apply_crosstalk" =>
          \A i \in DOMAIN call.amp_arrays : FlipTwiceRestores(call.amp_arrays[i])
    /\ FramesJustEmbedded =>
          \A k \in 1..Len(amp_arrays) : FlipTwiceRestores(amp_arrays[k])
    /\ FramesJustEmbedded /\ UnitGainNoCrosstalk =>
          \A k \in 1..Len(amp_images) :
              LET a     == self.v.ccd.amps[k]
                  frame == amp_images[k]
              IN  /\ frame.bounds = a.raw_bounds
                  /\ \A y \in a.raw_bounds.ymin..a.raw_bounds.ymax :
                        \A x \in a.raw_bounds.xmin..a.raw_bounds.xmax :
                            \/ /\ a.raw_data_bounds.xmin <= x /\ x <= a.raw_data_bounds.xmax
                               /\ a.raw_data_bounds.ymin <= y /\ y <= a.raw_data_bounds.ymax
                            \/ frame.array[y - a.raw_bounds.ymin][x - a.raw_bounds.xmin] = Zero
                  /\ Flipped(subarray(frame, a.raw_data_bounds), a)
                        = subarray(eimage, a.bounds)

\* all frames of a detector without crosstalk and with gains of 1 are
\* embedded, one of them flipped both ways and not symmetric under the flips
EmbeddedFlippedFrames ==
    /\ pc = "cte_parallel" /\ idx = 0
    /\ UnitGainNoCrosstalk
    /\ Len(amp_images) = NumAmps
    /\ \E k \in 1..Len(amp_images) :
          /\ self.v.ccd.amps[k].raw_flip_x
          /\ self.v.ccd.amps[k].raw_flip_y
          /\ amp_arrays[k] # subarray(eimage, self.v.ccd.amps[k].bounds)
          /\ subarray(amp_images[k], self.v.ccd.amps[k].raw_data_bounds) = amp_arrays[k]

(***************************************************************************)
(* C12.  Merging geometry (Camera.update, CCD.update, Amp.update as        *)
(* merge(base, update)) gives a new snapshot and mutates neither base nor  *)
(* update: in the result every amplifier of update has update's field      *)
(* values, every amplifier of base that update lacks is as it was, and the *)
(* base snapshot still holds the values it had before the merge.           *)
(***************************************************************************)
\* the amplifiers of snapshot as those of update where update has them, and as
\* those of base where only base has them
MergedFrom(snapshot, base, update) ==
    /\ \A d \in DOMAIN update.ccds :
          /\ d \in DOMAIN snapshot.ccds
          /\ \A n \in amp_names(update.ccds[d].amps) :
                /\ n \in amp_names(snapshot.ccds[d].amps)
                /\ amp_named(snapshot.ccds[d].amps, n) = amp_named(update.ccds[d].amps, n)
    /\ \A d \in DOMAIN base.ccds :
          /\ d \in DOMAIN snapshot.ccds
          /\ \A n \in amp_names(base.ccds[d].amps) :
                (d \in DOMAIN update.ccds => n \notin amp_names(update.ccds[d].amps)) =>
                    /\ n \in amp_names(snapshot.ccds[d].amps)
                    /\ amp_named(snapshot.ccds[d].amps, n) = amp_named(base.ccds[d].amps, n)

MergeLeavesBaseAlone ==
    pc = "updated" =>
        /\ cam_self = cam_before
        /\ ~ret.out.none
        /\ MergedFrom(ret.out.v, cam_before.v, cam_other.v)

(***************************************************************************)
(* C13.  The process-wide geometry cache has populate-once-per-key         *)
(* semantics under concurrency: for any interleaving of concurrent first   *)
(* calls of get_camera with one family name the camera is built at most    *)
(* once for that name, the cache is not corrupted, and every caller gets   *)
(* the same cached object.                                                 *)
(***************************************************************************)
BuildsOf(camera) == {i \in DOMAIN builds : builds[i] = camera}

PopulateOncePerKey ==
    pc = "threads" =>
        /\ \A c \in valid_cameras : Cardinality(BuildsOf(c)) <= 1
        /\ \A c \in DOMAIN camera_cache :
              /\ camera_cache[c].camera = lsst_obs[c]
              /\ camera_cache[c].build \in BuildsOf(c)
        /\ \A t, u \in DOMAIN thread :
              /\ thread[t].pc = "done" /\ thread[u].pc = "done"
              /\ thread[t].camera = thread[u].camera
              => thread[t].ret = thread[u].ret

(***************************************************************************)
(* C14.  A run whose electron-image header lacks a required                *)
(* identification or timing field fails with MissingMetadataError, no      *)
(* default is put in the field's place, and the failure is atomic:         *)
(* prepare_hdus returns no amplifier frames at all when a stage or the     *)
(* metadata assembly fails.                                                *)
(***************************************************************************)
\* the keys of the header that the run reads and the electron image lacks
MissingKeys ==
    IF eimage_in = None THEN {}
    ELSE {primary_hdu_keys[i] : i \in DOMAIN primary_hdu_keys} \ DOMAIN eimage_in.header

\* the run has ended and prepare_hdus has returned nothing
FailedWithNothing == pc = "raised" /\ hdus.none /\ phdu.none

MissingMetadataFails ==
    /\ pc = "raised" => hdus.none
    /\ MissingKeys # {} =>
          /\ pc # "done" /\ pc # "image_hdus"
          /\ hdus.none /\ phdu.none
          /\ pc = "raised" => exc = "MissingMetadataError"

(***************************************************************************)
(* C15.  A camera-family name outside the supported set fails with         *)
(* ConfigurationError and is fatal to the whole pipeline: constructing the *)
(* readout raises before any stage runs, nothing is added to the geometry  *)
(* cache for that name, and no primary record or amplifier frame is        *)
(* produced.                                                               *)
(***************************************************************************)
UnsupportedCamera ==
    /\ eimage_in # None
    /\ "CAMERA" \in DOMAIN eimage_in.header
    /\ "DET_NAME" \in DOMAIN eimage_in.header
    /\ eimage_in.header["CAMERA"] \notin valid_cameras

UnsupportedCameraFails ==
    UnsupportedCamera =>
        /\ pc \in {"new", "raised"}
        /\ self.none
        /\ log = <<>>
        /\ eimage = eimage_in
        /\ eimage_in.header["CAMERA"] \notin DOMAIN camera_cache
        /\ amp_images = <<>> /\ phdu.none /\ hdus.none
        /\ pc = "raised" => exc = "ConfigurationError"

(***************************************************************************)
(* C16.  For fixed inputs (boresight RA, Dec, rotator angle, MJD, band,    *)
(* camera family) compute_rotSkyPos returns the same value on every        *)
(* repeated call, the later calls being served from the cache, and the     *)
(* angle returned lies in [0, 360) for the LsstCam and for the             *)
(* LsstCamImSim convention.                                                *)
(***************************************************************************)
RepeatedCallsAgree ==
    \A i, j \in DOMAIN rot_calls :
        rot_calls[i].args = rot_calls[j].args => rot_calls[i].theta = rot_calls[j].theta

RotSkyPosRepeatableInRange ==
    /\ RepeatedCallsAgree
    /\ \A i \in DOMAIN rot_calls : 0 <= rot_calls[i].theta /\ rot_calls[i].theta < 360
    /\ \A args \in DOMAIN rotSkyPos_cache :
          0 <= rotSkyPos_cache[args] /\ rotSkyPos_cache[args] < 360

(***************************************************************************)
(* C20.  The cached compute_rotSkyPos is equivalent to the uncached        *)
(* computation for every sequence of calls: the value a call returns is    *)
(* the value the uncached computation gives for that call's full argument  *)
(* list, also for calls that differ only in dxy or pixel_scale, which are  *)
(* not in the cache key, and for calls whose band is coerced to 'r'.       *)
(***************************************************************************)
\* what lines 104-134 compute for the arguments of a call, the cache aside
Uncached(c) ==
    rotSkyPos_theta(c.args[6],
                    wcs[[band |-> coerced_band(c.args[5]), camera |-> c.args[6],
                         leg |-> c.leg]])

CachedEqualsUncached ==
    \A i \in DOMAIN rot_calls : rot_calls[i].theta = Uncached(rot_calls[i])

(***************************************************************************)
(* C17.  The record of the k-th output frame carries the channel label at  *)
(* index k of the 16-entry table whatever the amplifiers are called, the   *)
(* extension name 'Segment' + that label, a DATASEC that is the raw        *)
(* data-bounds of the amplifier whose pixels are in frame k, and a DETSEC  *)
(* that is the same amplifier's visible bounds with xmin/xmax swapped iff  *)
(* its x-flip flag is set and ymin/ymax swapped iff its y-flip flag is     *)
(* set.                                                                    *)
(***************************************************************************)
\* the keyword of a box with its ends swapped where a flag is set, written
\* out from the claim
SwappedSection(b, flipx, flipy) ==
    <<"[", IF flipx THEN b.xmax ELSE b.xmin, ":", IF flipx THEN b.xmin ELSE b.xmax, ",",
           IF flipy THEN b.ymax ELSE b.ymin, ":", IF flipy THEN b.ymin ELSE b.ymax, "]">>

\* frame k holds the pixels of amplifier k of the detector (the loop of
\* build_amp_images goes through the amplifiers in the detector's order)
FrameRecordOfAmp(k) ==
    LET hdu      == hdus.v.images[k]
        amp_of_k == self.v.ccd.amps[k]
    IN  /\ hdu.EXTNAME = "Segment" \o channels[k]
        /\ hdu.DATASEC = SwappedSection(amp_of_k.raw_data_bounds, FALSE, FALSE)
        /\ hdu.DETSEC = SwappedSection(amp_of_k.bounds, amp_of_k.raw_flip_x,
                                       amp_of_k.raw_flip_y)

NamedAsChannels ==
    \A k \in DOMAIN self.v.ccd.amps : self.v.ccd.amps[k].name = "C" \o channels[k]

FrameRecordsDescribeTheirAmp ==
    hdus # None => \A k \in DOMAIN hdus.v.images : FrameRecordOfAmp(k)

(***************************************************************************)
(* C18.  For every amplifier of the detector the parallel CTE operator     *)
(* has the size of the height of that amplifier's raw frame and the serial *)
(* CTE operator the size of its width, so that the products of apply_cte   *)
(* are well formed for every frame, wherever the raw bounds have their     *)
(* origin.                                                                 *)
(***************************************************************************)
SquareOfSize(op, n) == NRows(op) = n /\ NCols(op) = n

OperatorsOfFrameSize ==
    self # None =>
        \A k \in DOMAIN self.v.ccd.amps :
            LET shape == numpyShape(self.v.ccd.amps[k].raw_bounds)
            IN  /\ self.v.pcte_matrix # None => SquareOfSize(self.v.pcte_matrix.v, shape[1])
                /\ self.v.scte_matrix # None => SquareOfSize(self.v.scte_matrix.v, shape[2])

ProductsWellFormed ==
    /\ (pc = "cte_parallel" /\ self.v.pcte_matrix # None) =>
          NCols(self.v.pcte_matrix.v) = NRows(amp_images[idx + 1].array)
    /\ (pc = "cte_serial" /\ self.v.scte_matrix # None) =>
          NCols(self.v.scte_matrix.v) = NCols(amp_images[idx + 1].array)

RawOriginAtZero ==
    \A k \in DOMAIN self.v.ccd.amps :
        self.v.ccd.amps[k].raw_bounds.xmin = 1 /\ self.v.ccd.amps[k].raw_bounds.ymin = 1

CteOperatorsFitEveryFrame == OperatorsOfFrameSize /\ ProductsWellFormed

(***************************************************************************)
(* C19.  build_amp_images overwrites the caller's electron image in place: *)
(* after the call the image holds bleed(image before the call) plus the    *)
(* dark-current draw and the frames derive from that image; a second call  *)
(* of prepare_hdus on the same CcdReadout applies the bleeding and adds    *)
(* dark current on top of what the first call left, not on the original    *)
(* image; and no field of the CcdReadout other than amp_images is changed. *)
(***************************************************************************)
\* the pixels the caller's image had when the call under way began: those of
\* the caller's image for the first call, those the call before left after it
ArrayAtCall ==
    IF eimage_log = <<>> THEN eimage_in.array ELSE eimage_log[Len(eimage_log)].array

DarkMean == DecMul(self.v.dark_current, DecAdd(self.v.exp_time, self.v.readout_time))

\* a is b plus counts that are nowhere negative
NowhereBelow(a, b) ==
    /\ Shape(a) = Shape(b)
    /\ \A r \in DOMAIN b : \A c \in DOMAIN b[r] : ~DecSub(a[r][c], b[r][c]).neg

\* the image when the bleeding is done and when the dark current is added,
\* bled being the bleeding of the image the call began with
EimageAfterStage(bled) ==
    /\ pc = "dark" => eimage.array = bled
    /\ (pc = "segment" /\ amp_arrays = <<>>) =>
          IF DarkMean = Zero THEN eimage.array = bled
          ELSE NowhereBelow(eimage.array, bled)

EimageIsBleedPlusDark ==
    /\ pc = "bleed" => eimage.array = ArrayAtCall
    /\ pc \in {"dark", "segment"} =>
          EimageAfterStage(bleed_eimage(ArrayAtCall, self.v.full_well))
    /\ pc = "crosstalk" =>
          \A k \in 1..Len(amp_arrays) :
              \A r \in DOMAIN amp_arrays[k] : \A c \in DOMAIN amp_arrays[k][r] :
                  DecMul(amp_arrays[k][r][c], DecInt(self.v.ccd.amps[k].gain))
                      = SourcePixel(self.v.ccd.amps[k], r, c)

\* from one step to the next: the image changes in the bleeding and in the
\* dark current only, and is the image the frames were made of when
\* prepare_hdus returns; the fields of the CcdReadout set by the constructor
\* stay as they are
OnlyEimageAndFramesChange ==
    /\ pc \notin {"bleed", "dark"} => eimage' = eimage
    /\ self # None => self' = self
    /\ eimage_in' = eimage_in

RepeatedCallBuildsOnOverwrittenEimage ==
    /\ []EimageIsBleedPlusDark
    /\ [][OnlyEimageAndFramesChange]_vars

\* the second call has added its dark current to an image that the first
\* call had changed
SecondCallOnChangedEimage ==
    /\ Len(eimage_log) = 1
    /\ pc = "crosstalk"
    /\ DarkMean # Zero
    /\ eimage_log[1].array # eimage_in.array
    /\ eimage.array # eimage_log[1].array
    /\ \A dc_data \in PoissonDraws(NRows(eimage.array), NCols(eimage.array)) :
          \E r \in DOMAIN eimage.array : \E c \in DOMAIN eimage.array[r] :
              eimage.array[r][c] # DecAdd(bleed_eimage(eimage_in.array, self.v.full_well)[r][c],
                                          dc_data[r][c])

(***************************************************************************)
(* C21.  make_batches(objects, nbatch) yields exactly nbatch batches that  *)
(* partition the input: every object of the list is in exactly one of the  *)
(* batches and the batches follow the order of the list, for every length  *)
(* of the list and every nbatch >= 1, lengths that nbatch does not divide  *)
(* and lengths below nbatch included.                                      *)
(***************************************************************************)
RECURSIVE Concatenated(_)
Concatenated(lists) ==
    IF lists = <<>> THEN <<>> ELSE Head(lists) \o Concatenated(Tail(lists))

\* the generator has stopped
BatchesExhausted == pc = "batches" /\ ret # NoRet /\ ret.stopped

YieldsNbatchBatches == BatchesExhausted => Len(ret.batches) = call.nbatch

BatchesPartitionTheInput ==
    /\ YieldsNbatchBatches
    /\ BatchesExhausted => Concatenated(ret.batches) = call.objects

====
